---------------------------- MODULE Spec2Model ----------------------------
(***************************************************************************)
(* XDR (x402 Development Runtime): the ledger (xdr-ledger), the chaos      *)
(* engine (xdr-chaos), the trace recorder (xdr-trace) and the data-plane   *)
(* request pipeline (xdr-proxy, proxy_handler).                            *)
(*                                                                         *)
(* Money is counted in cents: 100.0 USDC is 10000, the invoice amount 0.01 *)
(* of the payment gate is 1.                                               *)
(*                                                                         *)
(* The DashMap guards of the ledger are modelled as per-key exclusive      *)
(* locks.  A guard taken and dropped without any other blocking call in    *)
(* between is one atomic step; pay_invoice, which keeps the invoice guard  *)
(* while it asks for the agent guard, is two steps.                        *)
(***************************************************************************)
EXTENDS Integers, Sequences, FiniteSets, TLC

(***************************************************************************)
(* Bounds of the model and constants of the program.                       *)
(***************************************************************************)
MaxInvoices == 2          \* invoices created in one run of the ledger specification
MaxRequests == 2          \* data-plane requests in one run of the pipeline specification
MaxRingRequests == 5      \* data-plane requests after the prefill in the ring specification
MaxReplayRequests == 3    \* data-plane requests in one run of the replay specification
MaxCalls == 4             \* calls on the chaos engine after a set_config in the engine specification

RingCapacity == 1000      \* xdr-proxy proxy_handler: if store.len() >= 1000 { store.pop_front(); }
InvoiceAmount == 1        \* xdr-proxy proxy_handler: create_invoice(&agent_id, 0.01)

DEFAULT_BUDGET == 1000    \* xdr-ledger: const DEFAULT_BUDGET: f64 = 10.0
InitialBalance == 10000   \* xdr-ledger AgentState::new: balance_usdc: 100.0

Agents == {"a1", "a2"}
Payers == {"t1", "t2"}                \* tasks that call pay_invoice concurrently
InvoiceAmounts == {1, 600}            \* amounts passed to create_invoice
BalanceAmounts == {-500, 700}         \* amounts passed to set_balance (any f64 in the code)

VARIABLES
    store,      \* Ledger.store: agent id -> AgentState (the domain is the registered agents)
    invoices,   \* Ledger.invoices: invoices[i] is the invoice with id i
    ilock,      \* ilock[i]: the task holding the guard of invoice i, or "none"
    pay,        \* pay[t]: the pay_invoice call of task t: its position and arguments
    ret,        \* the pay_invoice call that returned last: arguments and result
    settled,    \* history: settled[i] counts the pay_invoice calls on invoice i that returned Ok
    wallet,     \* history: per agent, the balance last set and the amounts debited since
    chaos,      \* ChaosState: config and rng, behind the chaos mutex
    traces,     \* AppState.traces: the buffer of committed traces, oldest first
    h,          \* the request in flight in proxy_handler: position, request, live trace, response
    nreq,       \* the number of data-plane requests received so far
    committed,  \* history: every trace ever appended to the buffer, in commit order
    ended,      \* history: the requests finished, by whether an upstream response ended them
    calls,      \* history: the calls made on the chaos engine since the last set_config
    replay,     \* a second run of the chaos engine, given the same calls as the first
    acct,       \* the wallet of one agent with its amounts as f64 values
    mutex,      \* the Mutex around ChaosState: the task holding its guard, whether it is poisoned
    tui,        \* the TUI task (run_app): its position and the config it read
    task        \* the calls on the ledger followed guard by guard: per task the call in
                \* progress and the guards it holds; the calls started; history of is_new

ledgerVars == <<store, invoices, ilock, pay, ret, settled, wallet>>
proxyVars == <<chaos, traces, h, nreq, committed, ended>>
sideVars == <<calls, replay, acct, mutex, tui, task>>
vars == <<store, invoices, ilock, pay, ret, settled, wallet,
          chaos, traces, h, nreq, committed, ended, calls, replay, acct, mutex, tui, task>>

InvoiceIds == 1..(MaxInvoices + 1)

(***************************************************************************)
(* xdr-ledger                                                              *)
(***************************************************************************)
AgentStateNew(id) ==
    [id |-> id, balance_usdc |-> InitialBalance, total_spend |-> 0,
     payment_count |-> 0, budget_limit |-> DEFAULT_BUDGET, is_active |-> TRUE]

\* register_or_get: the store after the call, and the is_new flag it returns
RegisterOrGet(st, a) ==
    IF a \in DOMAIN st THEN st ELSE st @@ (a :> AgentStateNew(a))

IsNew(st, a) == a \notin DOMAIN st

\* SetBalance that replaces the whole entry by a fresh wallet holding the amount
SetBalanceFresh(st, a, amount) ==
    LET s1 == IF a \in DOMAIN st THEN st ELSE st @@ (a :> AgentStateNew(a))
    IN  [s1 EXCEPT ![a] = [AgentStateNew(a) EXCEPT !.balance_usdc = amount]]

\* set_balance: entry(..).or_insert_with(AgentState::new), then balance_usdc = amount
SetBalance(st, a, amount) ==
    LET s1 == IF a \in DOMAIN st THEN st ELSE st @@ (a :> AgentStateNew(a))
    IN  [s1 EXCEPT ![a].balance_usdc = amount]

\* CreateInvoice that issues the invoice to no agent
CreateInvoiceUnowned(invs, a, amount) ==
    Append(invs, [id |-> Len(invs) + 1, amount |-> amount,
                  is_paid |-> FALSE, agent_id |-> "none"])

\* create_invoice: a fresh id (Uuid::new_v4), an unpaid invoice of the agent
CreateInvoice(invs, a, amount) ==
    Append(invs, [id |-> Len(invs) + 1, amount |-> amount,
                  is_paid |-> FALSE, agent_id |-> a])

\* ValidateInvoice with the owner check moved before the paid check
ValidateInvoiceOwnerFirst(invs, id, a) ==
    IF id \notin DOMAIN invs THEN "Invoice invalid"
    ELSE IF invs[id].agent_id # a THEN "Invoice belongs to another agent"
    ELSE IF invs[id].is_paid THEN "Invoice already paid"
    ELSE "Ok"

\* pay_invoice, "1. Validate Invoice": the first error, or "Ok"
ValidateInvoice(invs, id, a) ==
    IF id \notin DOMAIN invs THEN "Invoice invalid"
    ELSE IF invs[id].is_paid THEN "Invoice already paid"
    ELSE IF invs[id].agent_id # a THEN "Invoice belongs to another agent"
    ELSE "Ok"

\* ValidateFunds without the check of the budget cap
ValidateFundsNoCap(st, inv, a) ==
    IF a \notin DOMAIN st THEN "Agent not found"
    ELSE IF st[a].balance_usdc < inv.amount THEN "Wallet Exhausted: Insufficient funds"
    ELSE "Ok"

\* pay_invoice, "2. Validate Funds & Safety": the first error, or "Ok"
ValidateFunds(st, inv, a) ==
    IF a \notin DOMAIN st THEN "Agent not found"
    ELSE IF st[a].balance_usdc < inv.amount THEN "Wallet Exhausted: Insufficient funds"
    ELSE IF (st[a].total_spend + inv.amount) > st[a].budget_limit
         THEN "Safety Limit: Budget cap exceeded"
    ELSE "Ok"

\* Execute without the increment of payment_count
ExecuteNoCount(st, inv, a) ==
    [st EXCEPT ![a] = [@ EXCEPT !.balance_usdc = @ - inv.amount,
                                !.total_spend = @ + inv.amount]]

\* pay_invoice, "3. Execute": the debit of the agent
Execute(st, inv, a) ==
    [st EXCEPT ![a] = [@ EXCEPT !.balance_usdc = @ - inv.amount,
                                !.total_spend = @ + inv.amount,
                                !.payment_count = @ + 1]]

\* invoice.is_paid = true
MarkPaid(invs, id) == [invs EXCEPT ![id].is_paid = TRUE]

(***************************************************************************)
(* A call on the ledger followed guard by guard.                           *)
(***************************************************************************)
\* what the last call of a task returned (history); for register_or_get: the flag
\* is_new, whether the agent existed when the call was made, whether the state
\* returned is the agent's state in the store, whether the call changed the store
NoResult == [op |-> "none", agent |-> "none", is_new |-> FALSE, existed |-> FALSE,
             current |-> TRUE, changed |-> FALSE]

\* a task that is in no call
IdleTask == [op |-> "none", pc |-> "idle", id |-> 0, agent |-> "none", amount |-> 0,
             held |-> {}, last |-> NoResult]

NoTasks == [run |-> [t \in Payers |-> IdleTask], started |-> 0,
            created |-> [a \in Agents |-> 0], funded |-> 0]

(***************************************************************************)
(* History kept beside the ledger.                                         *)
(***************************************************************************)
WalletOnCreate(w, st, a) ==
    IF a \in DOMAIN st THEN w
    ELSE [w EXCEPT ![a] = [base |-> InitialBalance, debited |-> 0]]

(***************************************************************************)
(* xdr-chaos.  Rates are percentages (1.0 is 100).  The ChaCha8 stream is   *)
(* stood for by a full-period congruential generator on 0..99: what the    *)
(* model keeps of it is that a draw is a function of the seed and of the   *)
(* number of draws made since seeding.                                     *)
(***************************************************************************)
\* ChaosConfig::default
DefaultConfig ==
    [enabled |-> FALSE, seed |-> 0, global_failure_rate |-> 0,
     payment_failure_rate |-> 0, rug_rate |-> 0,
     min_latency_ms |-> 0, max_latency_ms |-> 0]

\* the configurations installed through POST /_xdr/chaos in the model
ChaosConfigs ==
    { [DefaultConfig EXCEPT !.enabled = TRUE, !.seed = 42, !.global_failure_rate = 100],
      [DefaultConfig EXCEPT !.enabled = TRUE, !.seed = 1, !.payment_failure_rate = 100],
      [DefaultConfig EXCEPT !.enabled = TRUE, !.seed = 2, !.rug_rate = 100],
      [DefaultConfig EXCEPT !.enabled = TRUE, !.seed = 7, !.global_failure_rate = 50,
                            !.min_latency_ms = 0, !.max_latency_ms = 1],
      [DefaultConfig EXCEPT !.global_failure_rate = 100, !.payment_failure_rate = 100,
                            !.rug_rate = 100, !.max_latency_ms = 1] }

\* the configurations given to set_config in the specification of the engine alone:
\* those above, and one whose latency range does not start at 0
EngineConfigs ==
    ChaosConfigs \cup
    { [DefaultConfig EXCEPT !.enabled = TRUE, !.seed = 3,
                            !.min_latency_ms = 2, !.max_latency_ms = 3] }

\* ChaCha8Rng::seed_from_u64
RngSeed(seed) == seed % 100

\* one draw: the generator's next state, which is also the value drawn
RngNext(x) == (21 * x + 7) % 100

\* rng.gen_bool(rate) on the value drawn
GenBool(x, rate) == x < rate

\* the status codes of roll_network_failure: let errors = [503, 429, 504]
NetworkErrors == <<503, 429, 504>>

\* ChaosEngine::new
NewChaos == [config |-> DefaultConfig, rng |-> RngSeed(0)]

\* SetConfig that installs the config and leaves the PRNG where it was
SetConfigKeepRng(c, new_config) == [config |-> new_config, rng |-> c.rng]

\* set_config: the rng reseeded from new_config.seed and the config installed, under the lock
SetConfig(c, new_config) == [config |-> new_config, rng |-> RngSeed(new_config.seed)]

\* RollNetworkFailure without the return on !enabled
RollNetworkFailureUngated(c) ==
    LET x1 == RngNext(c.rng)
    IN  IF GenBool(x1, c.config.global_failure_rate)
        THEN LET x2 == RngNext(x1)
             IN  [chaos |-> [c EXCEPT !.rng = x2],
                  out |-> NetworkErrors[(x2 % Len(NetworkErrors)) + 1]]
        ELSE [chaos |-> [c EXCEPT !.rng = x1], out |-> 0]

\* roll_network_failure: the engine after the call and Some(code) (0 stands for None)
RollNetworkFailure(c) ==
    IF ~c.config.enabled THEN [chaos |-> c, out |-> 0]
    ELSE LET x1 == RngNext(c.rng)
         IN  IF GenBool(x1, c.config.global_failure_rate)
             THEN LET x2 == RngNext(x1)
                  IN  [chaos |-> [c EXCEPT !.rng = x2],
                       out |-> NetworkErrors[(x2 % Len(NetworkErrors)) + 1]]
             ELSE [chaos |-> [c EXCEPT !.rng = x1], out |-> 0]

\* RollPaymentFailure that draws before it looks at enabled
RollPaymentFailureDrawFirst(c) ==
    LET x1 == RngNext(c.rng)
    IN  [chaos |-> [c EXCEPT !.rng = x1],
         out |-> c.config.enabled /\ GenBool(x1, c.config.payment_failure_rate)]

\* roll_payment_failure
RollPaymentFailure(c) ==
    IF ~c.config.enabled THEN [chaos |-> c, out |-> FALSE]
    ELSE LET x1 == RngNext(c.rng)
         IN  [chaos |-> [c EXCEPT !.rng = x1],
              out |-> GenBool(x1, c.config.payment_failure_rate)]

\* roll_rug_pull
RollRugPull(c) ==
    IF ~c.config.enabled THEN [chaos |-> c, out |-> FALSE]
    ELSE LET x1 == RngNext(c.rng)
         IN  [chaos |-> [c EXCEPT !.rng = x1],
              out |-> GenBool(x1, c.config.rug_rate)]

\* InjectLatency that draws the delay from min..=(min + max)
InjectLatencyWide(c) ==
    IF ~c.config.enabled \/ c.config.max_latency_ms = 0
    THEN [chaos |-> c, enabled |-> FALSE, delay |-> 0]
    ELSE LET x1 == RngNext(c.rng)
             min == c.config.min_latency_ms
             max == c.config.max_latency_ms
         IN  [chaos |-> [c EXCEPT !.rng = x1], enabled |-> TRUE,
              delay |-> min + (x1 % (max + 1))]

\* inject_latency, the block under the lock: (enabled, delay), with
\* delay = rng.gen_range(min..=max)
InjectLatency(c) ==
    IF ~c.config.enabled \/ c.config.max_latency_ms = 0
    THEN [chaos |-> c, enabled |-> FALSE, delay |-> 0]
    ELSE LET x1 == RngNext(c.rng)
             min == c.config.min_latency_ms
             max == c.config.max_latency_ms
         IN  [chaos |-> [c EXCEPT !.rng = x1], enabled |-> TRUE,
              delay |-> min + (x1 % (max - min + 1))]

\* get_config: the engine after the call and the clone of the config
GetConfig(c) == [chaos |-> c, out |-> c.config]

\* history: no call made since the engine was constructed
NoCalls == [made |-> << >>, stale |-> FALSE]

\* one call on the engine c: the engine after it and the record of what the caller
\* saw; out is the code (0 for None), 1 or 0 for a bool, or the delay drawn, and
\* slept tells whether inject_latency suspended the caller (enabled && delay > 0)
Call(c, op) ==
    IF op = "network"
    THEN LET r == RollNetworkFailure(c)
         IN  [chaos |-> r.chaos, entry |-> [op |-> op, out |-> r.out, slept |-> FALSE]]
    ELSE IF op = "payment"
    THEN LET r == RollPaymentFailure(c)
         IN  [chaos |-> r.chaos,
              entry |-> [op |-> op, out |-> IF r.out THEN 1 ELSE 0, slept |-> FALSE]]
    ELSE IF op = "rug"
    THEN LET r == RollRugPull(c)
         IN  [chaos |-> r.chaos,
              entry |-> [op |-> op, out |-> IF r.out THEN 1 ELSE 0, slept |-> FALSE]]
    ELSE LET r == InjectLatency(c)
         IN  [chaos |-> r.chaos,
              entry |-> [op |-> op, out |-> r.delay, slept |-> r.enabled /\ r.delay > 0]]

(***************************************************************************)
(* The Mutex around ChaosState.  Every operation of the engine starts with *)
(* state.lock().unwrap(): it waits while another task holds the guard and  *)
(* panics when the mutex is poisoned, which it is once a holder panicked.  *)
(***************************************************************************)
\* Mutex::new; entered is history: while the request in flight sleeps, whether
\* another caller has taken the guard
NewMutex == [holder |-> "none", poisoned |-> FALSE, entered |-> FALSE]

\* the TUI between two keys
IdleTui == [pc |-> "idle", cfg |-> DefaultConfig]

\* the call op panics while it holds the guard: gen_bool(rate) with a rate outside
\* [0, 1], gen_range(min..=max) with an empty range
Panics(cfg, op) ==
    /\ cfg.enabled
    /\ \/ op = "network" /\ cfg.global_failure_rate \notin 0..100
       \/ op = "payment" /\ cfg.payment_failure_rate \notin 0..100
       \/ op = "rug" /\ cfg.rug_rate \notin 0..100
       \/ op = "latency" /\ cfg.max_latency_ms # 0
                         /\ cfg.min_latency_ms > cfg.max_latency_ms

\* LatencyGuard that keeps the guard while the caller sleeps
LatencyGuardKept(r) == IF r.enabled /\ r.delay > 0 THEN "h" ELSE "none"

\* inject_latency: the holder of the guard once the block that draws the delay has
\* ended (the guard is a local of that block), r being what the block returned
LatencyGuard(r) == "none"

(***************************************************************************)
(* xdr-trace                                                               *)
(***************************************************************************)
\* no live trace (before Trace::new); status_code 0 stands for None, end_time and
\* duration_ms tell whether the field is Some
NoTrace == [req |-> 0, agent_id |-> "none", status_code |-> 0, finishes |-> 0,
            events |-> << >>, end_time |-> FALSE, duration_ms |-> FALSE]

\* Trace::new(agent_id, method, url); the fresh Uuid is the number of the request
TraceNew(n, agent_id) ==
    [req |-> n, agent_id |-> agent_id, status_code |-> 0, finishes |-> 0,
     events |-> << >>, end_time |-> FALSE, duration_ms |-> FALSE]

\* Trace::log
Log(tr, category) == [tr EXCEPT !.events = Append(@, category)]

\* Trace::finish; finishes counts the calls
Finish(tr, status) ==
    [tr EXCEPT !.end_time = TRUE, !.duration_ms = TRUE, !.status_code = status,
               !.finishes = @ + 1]

(***************************************************************************)
(* xdr-proxy: requests                                                     *)
(***************************************************************************)
\* the id string of the invoice with key i (Uuid::new_v4().to_string())
Uuid(i) == ToString(i)

\* Authorization values, as sequences of pieces: the literal "L402", a space "_",
\* another scheme, or an invoice id
AuthValues ==
    { << >> } \cup { <<"L402", "_", Uuid(i)>> : i \in 1..MaxInvoices }
              \cup { <<"L402", Uuid(1)>>, <<"Bearer", "_", Uuid(1)>> }

\* a data-plane request: X-Agent-ID (or "none"), whether the path contains "paid",
\* whether X-Simulate-Payment is present, Authorization, and whether the URI is
\* absolute or X-Upstream-Host is present
RequestShapes ==
    [agent : {"none"} \cup Agents, paid_path : BOOLEAN, simulate : BOOLEAN,
     auth : AuthValues, absolute : {FALSE}, upstream_host : BOOLEAN]

\* the requests of the model: every shape for agent "a1"; for "a2", the other agent,
\* and for a request without X-Agent-ID, the gated ones that carry a token or nothing
Requests ==
    {r \in RequestShapes :
        /\ ~(r.paid_path /\ r.simulate)
        /\ r.simulate => r.upstream_host
        /\ r.agent # "a1" =>
              /\ r.paid_path /\ r.upstream_host
              /\ r.auth \in {<< >>, <<"L402", "_", Uuid(1)>>}}

NoRequest ==
    [agent |-> "none", paid_path |-> FALSE, simulate |-> FALSE, auth |-> << >>,
     absolute |-> FALSE, upstream_host |-> FALSE]

\* what the upstream answers: a status, or 0 for a transport error
UpstreamOutcomes == {200, 404, 0}

\* the names of the headers of the upstream's response, by the status it answers
UpstreamHeaders(o) ==
    IF o = 200
    THEN {"content-type", "content-length", "connection", "keep-alive", "etag"}
    ELSE {"content-type", "transfer-encoding", "trailer", "upgrade", "te",
          "proxy-authenticate", "proxy-authorization", "x-request-id"}

\* RemoveHopByHopHeaders that keeps content-length
RemoveHopByHopKeepLength(headers) ==
    headers \ {"connection", "keep-alive", "proxy-authenticate", "proxy-authorization",
               "te", "trailer", "transfer-encoding", "upgrade"}

\* remove_hop_by_hop_headers
RemoveHopByHopHeaders(headers) ==
    headers \ {"connection", "keep-alive", "proxy-authenticate", "proxy-authorization",
               "te", "trailer", "transfer-encoding", "upgrade", "content-length"}

\* token.starts_with("L402")
StartsWithL402(token) == Len(token) >= 1 /\ token[1] = "L402"

\* token.replace("L402 ", ""): every occurrence of the prefix and its space removed
RECURSIVE ReplaceL402(_)
ReplaceL402(token) ==
    IF Len(token) = 0 THEN << >>
    ELSE IF Len(token) >= 2 /\ token[1] = "L402" /\ token[2] = "_"
         THEN ReplaceL402(SubSeq(token, 3, Len(token)))
    ELSE <<token[1]>> \o ReplaceL402(Tail(token))

\* the key of the invoices map that the extracted invoice_id string names (0: none)
InvoiceKey(invoice_id) ==
    IF Len(invoice_id) = 1 /\ \E i \in InvoiceIds : Uuid(i) = invoice_id[1]
    THEN CHOOSE i \in InvoiceIds : Uuid(i) = invoice_id[1]
    ELSE 0

\* ShouldGate that looks at the path only
ShouldGatePathOnly(r) == r.paid_path

\* should_gate
ShouldGate(r) == r.paid_path \/ r.simulate

\* resolve_upstream_url succeeds
ResolveUpstreamUrl(r) == r.absolute \/ r.upstream_host

\* the handler between requests
IdleHandler ==
    [pc |-> "idle", req |-> NoRequest, trace |-> NoTrace, resp |-> 0,
     commits |-> 0, rolls |-> << >>, delay |-> 0, upstream_calls |-> 0,
     fwd_auth |-> FALSE, mutations |-> 0, settlement |-> FALSE, paid |-> FALSE,
     \* history of the request: the ledger as it was when the request arrived, the
     \* calls of create_invoice and pay_invoice it made, the invoice id of its 402 body,
     \* the invoice_id string it passed to pay_invoice
     store0 |-> << >>, invs0 |-> 0, created |-> 0, pay_calls |-> 0, challenge |-> 0,
     pay_arg |-> << >>, invoices0 |-> << >>,
     \* the status and the header names of the upstream's response (0: none), and the
     \* header names of the response built from it
     up_status |-> 0, up_headers |-> {}, resp_headers |-> {}]

\* the push of a finished trace without eviction: traces.lock().unwrap().push_back(trace)
PushBack(buf, tr) == Append(buf, tr)

\* RingPush that evicts only once the buffer is over capacity
RingPushLate(buf, tr) ==
    Append(IF Len(buf) > RingCapacity THEN Tail(buf) ELSE buf, tr)

\* the push of the upstream-success path, "Ring buffer logic"
RingPush(buf, tr) ==
    Append(IF Len(buf) >= RingCapacity THEN Tail(buf) ELSE buf, tr)

(***************************************************************************)
(* xdr-ledger with its amounts as f64.  A non-negative f64 below 128 whose *)
(* unit in the last place is at least 2^-59 is written as the number of    *)
(* units of 2^-59 it holds, in four digits of base 2^20, lowest first.     *)
(* An addition or subtraction is exact on these and then rounded to 53     *)
(* significant bits, ties to even, as IEEE 754 binary64 does.              *)
(***************************************************************************)
F64Base == 1048576        \* 2^20

Zero64 == <<0, 0, 0, 0>>
Cent64 == <<922747, 922746, 5242, 0>>      \* 0.01 = 0x1.47ae147ae147bp-7
Ten64 == <<0, 0, 0, 5>>                    \* 10.0, DEFAULT_BUDGET
Hundred64 == <<0, 0, 0, 50>>               \* 100.0

RECURSIVE Pow2(_)
Pow2(k) == IF k = 0 THEN 1 ELSE 2 * Pow2(k - 1)

RECURSIVE Bits(_)
Bits(n) == IF n = 0 THEN 0 ELSE 1 + Bits(n \div 2)

\* the exact sum of two values
AddDigits(x, y) ==
    LET s1 == x[1] + y[1]
        s2 == x[2] + y[2] + (s1 \div F64Base)
        s3 == x[3] + y[3] + (s2 \div F64Base)
        s4 == x[4] + y[4] + (s3 \div F64Base)
    IN  <<s1 % F64Base, s2 % F64Base, s3 % F64Base, s4>>

\* the exact difference x - y, for x >= y
SubDigits(x, y) ==
    LET d1 == x[1] - y[1]
        d2 == x[2] - y[2] - (IF d1 < 0 THEN 1 ELSE 0)
        d3 == x[3] - y[3] - (IF d2 < 0 THEN 1 ELSE 0)
        d4 == x[4] - y[4] - (IF d3 < 0 THEN 1 ELSE 0)
    IN  <<d1 % F64Base, d2 % F64Base, d3 % F64Base, d4>>

\* the number of significant bits of a value
BitLength(x) ==
    IF x[4] # 0 THEN 60 + Bits(x[4])
    ELSE IF x[3] # 0 THEN 40 + Bits(x[3])
    ELSE IF x[2] # 0 THEN 20 + Bits(x[2])
    ELSE Bits(x[1])

\* the value rounded to 53 significant bits, ties to even (the bits dropped are
\* within the lowest digit: a value below 128 has at most 66 bits)
Round53(x) ==
    LET d == BitLength(x) - 53
        low == x[1] % Pow2(d)
        half == Pow2(d - 1)
        odd == (x[1] \div Pow2(d)) % 2 = 1
        down == [x EXCEPT ![1] = @ - low]
    IN  IF d <= 0 THEN x
        ELSE IF low > half \/ (low = half /\ odd)
             THEN AddDigits(down, <<Pow2(d), 0, 0, 0>>)
        ELSE down

\* f64 +, - and <
F64Add(x, y) == Round53(AddDigits(x, y))
F64Sub(x, y) == Round53(SubDigits(x, y))
F64Less(x, y) ==
    \E i \in 1..4 : x[i] < y[i] /\ \A j \in (i + 1)..4 : x[j] = y[j]

\* set_balance("a2", 100.0) on a new agent: AgentState::new, then the balance
Account64 ==
    [balance_usdc |-> Hundred64, total_spend |-> Zero64, payment_count |-> 0,
     budget_limit |-> Ten64, attempts |-> 0, result |-> "None", status |-> 0]

\* pay_invoice on a fresh invoice of the agent, "2. Validate Funds & Safety" in f64
ValidateFunds64(ac, amount) ==
    IF F64Less(ac.balance_usdc, amount) THEN "Wallet Exhausted: Insufficient funds"
    ELSE IF F64Less(ac.budget_limit, F64Add(ac.total_spend, amount))
         THEN "Safety Limit: Budget cap exceeded"
    ELSE "Ok"

\* pay_invoice, "3. Execute" in f64
Execute64(ac, amount) ==
    [ac EXCEPT !.balance_usdc = F64Sub(@, amount),
               !.total_spend = F64Add(@, amount),
               !.payment_count = @ + 1]

\* one settlement attempt: the challenge creates an invoice of 0.01, the retry
\* pays it; Err is answered with 402, Ok goes on to the upstream (status 0 here)
Settle64(ac) ==
    LET r == ValidateFunds64(ac, Cent64)
        a1 == IF r = "Ok" THEN Execute64(ac, Cent64) ELSE ac
    IN  [a1 EXCEPT !.attempts = @ + 1, !.result = r,
                   !.status = IF r = "Ok" THEN 0 ELSE 402]

(***************************************************************************)
(* The operations of the ledger, called by concurrent tasks.               *)
(***************************************************************************)
NoReturn == [inv |-> 0, agent |-> "none", result |-> "None",
             overlapped |-> FALSE]

Idle == [pc |-> "idle", inv |-> 0, agent |-> "none", overlap |-> FALSE]

InitLedger ==
    /\ store = << >>
    /\ invoices = << >>
    /\ ilock = [i \in InvoiceIds |-> "none"]
    /\ pay = [t \in Payers |-> Idle]
    /\ ret = NoReturn
    /\ settled = [i \in InvoiceIds |-> 0]
    /\ wallet = [a \in Agents |-> [base |-> 0, debited |-> 0]]
    /\ chaos = NewChaos
    /\ traces = << >>
    /\ h = IdleHandler
    /\ nreq = 0
    /\ committed = << >>
    /\ ended = [upstream |-> 0, other |-> 0]
    /\ calls = NoCalls
    /\ replay = [chaos |-> NewChaos, installed |-> FALSE, agree |-> TRUE]
    /\ acct = Account64
    /\ mutex = NewMutex
    /\ tui = IdleTui
    /\ task = NoTasks

LRegister(a) ==
    /\ IsNew(store, a)
    /\ store' = RegisterOrGet(store, a)
    /\ wallet' = WalletOnCreate(wallet, store, a)
    /\ UNCHANGED <<invoices, ilock, pay, ret, settled>>
    /\ UNCHANGED proxyVars
    /\ UNCHANGED sideVars

LSetBalance(a, amount) ==
    /\ store' = SetBalance(store, a, amount)
    /\ wallet' = [wallet EXCEPT ![a] = [base |-> amount, debited |-> 0]]
    /\ UNCHANGED <<invoices, ilock, pay, ret, settled>>
    /\ UNCHANGED proxyVars
    /\ UNCHANGED sideVars

LCreateInvoice(a, amount) ==
    /\ Len(invoices) < MaxInvoices
    /\ invoices' = CreateInvoice(invoices, a, amount)
    /\ UNCHANGED <<store, ilock, pay, ret, settled, wallet>>
    /\ UNCHANGED proxyVars
    /\ UNCHANGED sideVars

\* the invoice read without exclusion: no task ever waits for the guard
InvoiceGuardIgnored(id) == TRUE

\* the guard of invoice id can be taken (get_mut blocks while another task holds it)
InvoiceGuardFree(id) == id \in DOMAIN invoices => ilock[id] = "none"

\* pay_invoice(id, a, network), lines 118-125: invoices.get_mut(invoice_id) and the
\* checks on the invoice; an error returns (the guard is dropped), otherwise the task
\* keeps the guard and goes on to the agent
PayValidateInvoice(t, id, a) ==
    LET r == ValidateInvoice(invoices, id, a)
        \* history: another task is between its two steps, paying from the same agent
        meets(u) == u # t /\ pay[u].pc = "agent" /\ pay[u].agent = a
    IN  /\ pay[t].pc = "idle"
        /\ InvoiceGuardFree(id)
        /\ IF r = "Ok"
           THEN /\ ilock' = [ilock EXCEPT ![id] = t]
                /\ pay' = [u \in Payers |->
                             IF u = t
                             THEN [pc |-> "agent", inv |-> id, agent |-> a,
                                   overlap |-> \E v \in Payers : meets(v)]
                             ELSE IF meets(u) THEN [pay[u] EXCEPT !.overlap = TRUE]
                             ELSE pay[u]]
                /\ ret' = ret
           ELSE /\ ilock' = ilock
                /\ pay' = pay
                /\ ret' = [inv |-> id, agent |-> a, result |-> r,
                           overlapped |-> FALSE]
        /\ UNCHANGED <<store, invoices, settled, wallet>>
        /\ UNCHANGED proxyVars
        /\ UNCHANGED sideVars

\* pay_invoice, lines 128-153: store.get_mut(agent_id), the checks on the agent, the
\* debit, invoice.is_paid = true, and both guards dropped on return
PayValidateFunds(t) ==
    LET id == pay[t].inv
        a == pay[t].agent
        r == ValidateFunds(store, invoices[id], a)
    IN  /\ pay[t].pc = "agent"
        /\ ilock' = [ilock EXCEPT ![id] = "none"]
        /\ pay' = [pay EXCEPT ![t] = Idle]
        /\ ret' = [inv |-> id, agent |-> a, result |-> r,
                   overlapped |-> pay[t].overlap]
        /\ IF r = "Ok"
           THEN /\ store' = Execute(store, invoices[id], a)
                /\ invoices' = MarkPaid(invoices, id)
                /\ settled' = [settled EXCEPT ![id] = @ + 1]
                /\ wallet' = [wallet EXCEPT ![a].debited = @ + invoices[id].amount]
           ELSE UNCHANGED <<store, invoices, settled, wallet>>
        /\ UNCHANGED proxyVars
        /\ UNCHANGED sideVars

NextLedger ==
    \/ \E a \in Agents : LRegister(a)
    \/ \E a \in Agents, amount \in BalanceAmounts : LSetBalance(a, amount)
    \/ \E a \in Agents, amount \in InvoiceAmounts : LCreateInvoice(a, amount)
    \/ \E t \in Payers, id \in InvoiceIds, a \in Agents : PayValidateInvoice(t, id, a)
    \/ \E t \in Payers : PayValidateFunds(t)

SpecLedger == InitLedger /\ [][NextLedger]_vars

(***************************************************************************)
(* xdr-proxy: proxy_handler, one step per operation on shared state.  The  *)
(* steps of one request run in the order of the code; the control plane    *)
(* (set_config, set_balance) may run between any two of them.              *)
(***************************************************************************)
\* the request in flight is in tokio::time::sleep
Sleeping == h.pc \in {"sleep1", "sleep2"}

\* state.lock().unwrap() returns the guard and the call op made under it returns
ChaosLock(op) ==
    /\ mutex.holder = "none"
    /\ ~mutex.poisoned
    /\ ~Panics(chaos.config, op)

\* the second run makes the call that the first run makes: r1 is what the call
\* returned in the first run (the engine left aside), r2 what it returns in the second
Lockstep(r1, r2) ==
    [replay EXCEPT !.chaos = r2.chaos,
                   !.agree = @ /\ [r1 EXCEPT !.chaos = 0] = [r2 EXCEPT !.chaos = 0]]

EndOther == [ended EXCEPT !.other = @ + 1]
EndUpstream == [ended EXCEPT !.upstream = @ + 1]

\* PayInvoice that debits the agent and leaves the invoice unpaid
PayInvoiceUnmarked(st, invs, id, a) ==
    LET r1 == ValidateInvoice(invs, id, a)
        r2 == ValidateFunds(st, invs[id], a)
    IN  IF r1 # "Ok" THEN [result |-> r1, store |-> st, invoices |-> invs]
        ELSE IF r2 # "Ok" THEN [result |-> r2, store |-> st, invoices |-> invs]
        ELSE [result |-> "Ok", store |-> Execute(st, invs[id], a), invoices |-> invs]

\* pay_invoice called by the only request in flight: both halves in one step
PayInvoice(st, invs, id, a) ==
    LET r1 == ValidateInvoice(invs, id, a)
        r2 == ValidateFunds(st, invs[id], a)
    IN  IF r1 # "Ok" THEN [result |-> r1, store |-> st, invoices |-> invs]
        ELSE IF r2 # "Ok" THEN [result |-> r2, store |-> st, invoices |-> invs]
        ELSE [result |-> "Ok", store |-> Execute(st, invs[id], a),
              invoices |-> MarkPaid(invs, id)]

\* Terminate that appends the live trace without finishing it
TerminateUnfinished(hh, category, status) ==
    [hh EXCEPT !.pc = "done", !.resp = status, !.commits = @ + 1,
               !.trace = Log(@, category)]

\* a terminal stage that finalizes and appends the live trace, without eviction:
\* record!(category, ..); trace.finish(status); push_back(trace); return status
Terminate(hh, category, status) ==
    [hh EXCEPT !.pc = "done", !.resp = status, !.commits = @ + 1,
               !.trace = Finish(Log(@, category), status)]

\* ResolveAndForward that sends Authorization along whenever the request had it
ResolveAndForwardKeepAuth(hh) ==
    IF ResolveUpstreamUrl(hh.req)
    THEN [hh EXCEPT !.pc = "upstream", !.trace = Log(@, "Upstream"),
                    !.upstream_calls = @ + 1,
                    !.fwd_auth = (hh.req.auth # << >>)]
    ELSE Terminate(hh, "Error", 400)

\* lines 273-299: resolve the upstream URL; on failure finish with 400, otherwise log
\* the forwarding and send the request (Authorization goes along unless it was removed)
ResolveAndForward(hh) ==
    IF ResolveUpstreamUrl(hh.req)
    THEN [hh EXCEPT !.pc = "upstream", !.trace = Log(@, "Upstream"),
                    !.upstream_calls = @ + 1,
                    !.fwd_auth = (hh.req.auth # << >> /\ ~hh.paid)]
    ELSE Terminate(hh, "Error", 400)

\* lines 124-137: the first identity check and the first register_or_get
HArrive(r, limit) ==
    /\ h.pc \in {"idle", "done", "panicked", "cancelled"}
    /\ nreq < limit
    /\ nreq' = nreq + 1
    /\ IF r.agent = "none"
       THEN /\ h' = [IdleHandler EXCEPT !.pc = "done", !.req = r, !.resp = 400,
                        !.store0 = store, !.invs0 = Len(invoices),
                        !.invoices0 = invoices]
            /\ ended' = EndOther
            /\ UNCHANGED <<store, wallet>>
       ELSE /\ store' = RegisterOrGet(store, r.agent)
            /\ wallet' = WalletOnCreate(wallet, store, r.agent)
            /\ h' = [IdleHandler EXCEPT !.pc = "latency1", !.req = r,
                        !.mutations = IF IsNew(store, r.agent) THEN 1 ELSE 0,
                        !.store0 = store, !.invs0 = Len(invoices),
                        !.invoices0 = invoices]
            /\ ended' = ended
    /\ UNCHANGED <<invoices, ilock, pay, ret, settled, chaos, traces, committed>>
    /\ UNCHANGED sideVars

\* line 144: the first inject_latency
HInjectLatency1 ==
    LET r == InjectLatency(chaos)
    IN  /\ h.pc = "latency1"
        /\ ChaosLock("latency")
        /\ chaos' = r.chaos
        /\ h' = [h EXCEPT !.rolls = Append(@, "latency"), !.delay = r.delay,
                          !.pc = IF r.enabled /\ r.delay > 0 THEN "sleep1" ELSE "network1"]
        /\ UNCHANGED <<ledgerVars, traces, nreq, committed, ended>>
        /\ replay' = Lockstep(r, InjectLatency(replay.chaos))
        /\ UNCHANGED <<calls, acct, tui, task>>
        /\ mutex' = [mutex EXCEPT !.holder = LatencyGuard(r)]

\* tokio::time::sleep(delay) is over
HWake ==
    /\ h.pc \in {"sleep1", "sleep2"}
    /\ h' = [h EXCEPT !.delay = 0,
                      !.pc = IF h.pc = "sleep1" THEN "network1" ELSE "network2"]
    /\ mutex' = [mutex EXCEPT !.holder = "none", !.entered = FALSE]
    /\ UNCHANGED <<ledgerVars, chaos, traces, nreq, committed, ended>>
    /\ UNCHANGED <<calls, replay, acct, tui, task>>

\* lines 154-159: the first roll_network_failure; a hit returns the code, a miss
\* creates the trace
HRollNetworkFailure1 ==
    LET r == RollNetworkFailure(chaos)
    IN  /\ h.pc = "network1"
        /\ ChaosLock("network")
        /\ chaos' = r.chaos
        /\ IF r.out # 0
           THEN /\ h' = [h EXCEPT !.rolls = Append(@, "network"), !.pc = "done",
                                  !.resp = r.out]
                /\ ended' = EndOther
           ELSE /\ h' = [h EXCEPT !.rolls = Append(@, "network"), !.pc = "latency2",
                                  !.trace = TraceNew(nreq, "unknown")]
                /\ ended' = ended
        /\ UNCHANGED <<ledgerVars, traces, nreq, committed>>
        /\ replay' = Lockstep(r, RollNetworkFailure(replay.chaos))
        /\ UNCHANGED <<calls, acct, tui, task>>
        /\ mutex' = mutex

\* line 167: the second inject_latency
HInjectLatency2 ==
    LET r == InjectLatency(chaos)
    IN  /\ h.pc = "latency2"
        /\ ChaosLock("latency")
        /\ chaos' = r.chaos
        /\ h' = [h EXCEPT !.rolls = Append(@, "latency"), !.delay = r.delay,
                          !.pc = IF r.enabled /\ r.delay > 0 THEN "sleep2" ELSE "network2"]
        /\ UNCHANGED <<ledgerVars, traces, nreq, committed, ended>>
        /\ replay' = Lockstep(r, InjectLatency(replay.chaos))
        /\ UNCHANGED <<calls, acct, tui, task>>
        /\ mutex' = [mutex EXCEPT !.holder = LatencyGuard(r)]

\* lines 170-175: the second roll_network_failure; a hit commits the trace
HRollNetworkFailure2 ==
    LET r == RollNetworkFailure(chaos)
        rolled == [h EXCEPT !.rolls = Append(@, "network")]
        hit == Terminate(rolled, "Chaos", r.out)
    IN  /\ h.pc = "network2"
        /\ ChaosLock("network")
        /\ chaos' = r.chaos
        /\ IF r.out # 0
           THEN /\ h' = hit
                /\ traces' = PushBack(traces, hit.trace)
                /\ committed' = Append(committed, hit.trace)
                /\ ended' = EndOther
           ELSE /\ h' = [rolled EXCEPT !.pc = "identity"]
                /\ UNCHANGED <<traces, committed, ended>>
        /\ UNCHANGED <<ledgerVars, nreq>>
        /\ replay' = Lockstep(r, RollNetworkFailure(replay.chaos))
        /\ UNCHANGED <<calls, acct, tui, task>>
        /\ mutex' = mutex

\* lines 177-200 (and 273-299 when the gate does not engage): the second identity
\* check, the second register_or_get, the decision of the gate
HIdentity ==
    LET a == h.req.agent
        missing == Terminate(h, "Error", 400)
        named == [h EXCEPT !.trace = Log([@ EXCEPT !.agent_id = a], "Info"),
                           !.mutations = @ + (IF IsNew(store, a) THEN 1 ELSE 0)]
        next == IF ~ShouldGate(h.req) THEN ResolveAndForward(named)
                ELSE IF StartsWithL402(h.req.auth)
                     THEN [named EXCEPT !.pc = "payment_roll", !.settlement = TRUE]
                ELSE [named EXCEPT !.pc = "challenge"]
        hh == IF a = "none" THEN missing ELSE next
    IN  /\ h.pc = "identity"
        /\ h' = hh
        /\ IF a = "none"
           THEN UNCHANGED <<store, wallet>>
           ELSE /\ store' = RegisterOrGet(store, a)
                /\ wallet' = WalletOnCreate(wallet, store, a)
        /\ IF hh.pc = "done"
           THEN /\ traces' = PushBack(traces, hh.trace)
                /\ committed' = Append(committed, hh.trace)
                /\ ended' = EndOther
           ELSE UNCHANGED <<traces, committed, ended>>
        /\ UNCHANGED <<invoices, ilock, pay, ret, settled, chaos, nreq>>
        /\ UNCHANGED sideVars

\* HRollPaymentFailure with the roll made after pay_invoice: a hit finds the
\* payment made
HRollPaymentFailureLate ==
    LET r == RollPaymentFailure(chaos)
        rolled == [h EXCEPT !.rolls = Append(@, "payment")]
        hit == Terminate(rolled, "Chaos", 402)
        p == PayInvoice(store, invoices, InvoiceKey(ReplaceL402(h.req.auth)), h.req.agent)
    IN  /\ h.pc = "payment_roll"
        /\ ChaosLock("payment")
        /\ chaos' = r.chaos
        /\ IF r.out
           THEN /\ h' = hit
                /\ traces' = PushBack(traces, hit.trace)
                /\ committed' = Append(committed, hit.trace)
                /\ ended' = EndOther
                /\ store' = p.store
                /\ invoices' = p.invoices
           ELSE /\ h' = [rolled EXCEPT !.pc = "pay"]
                /\ UNCHANGED <<traces, committed, ended, store, invoices>>
        /\ UNCHANGED <<ilock, pay, ret, settled, wallet, nreq>>
        /\ replay' = Lockstep(r, RollPaymentFailure(replay.chaos))
        /\ UNCHANGED <<calls, acct, tui, task>>
        /\ mutex' = mutex

\* lines 202-207: roll_payment_failure
HRollPaymentFailure ==
    LET r == RollPaymentFailure(chaos)
        rolled == [h EXCEPT !.rolls = Append(@, "payment")]
        hit == Terminate(rolled, "Chaos", 402)
    IN  /\ h.pc = "payment_roll"
        /\ ChaosLock("payment")
        /\ chaos' = r.chaos
        /\ IF r.out
           THEN /\ h' = hit
                /\ traces' = PushBack(traces, hit.trace)
                /\ committed' = Append(committed, hit.trace)
                /\ ended' = EndOther
           ELSE /\ h' = [rolled EXCEPT !.pc = "pay"]
                /\ UNCHANGED <<traces, committed, ended>>
        /\ UNCHANGED <<ledgerVars, nreq>>
        /\ replay' = Lockstep(r, RollPaymentFailure(replay.chaos))
        /\ UNCHANGED <<calls, acct, tui, task>>
        /\ mutex' = mutex

\* lines 209-224 and 235-243: the invoice id taken from the token, pay_invoice, and
\* the rejection of the payment
HPayInvoice ==
    LET a == h.req.agent
        id == InvoiceKey(ReplaceL402(h.req.auth))
        r == PayInvoice(store, invoices, id, a)
        called == [h EXCEPT !.pay_calls = @ + 1, !.pay_arg = ReplaceL402(h.req.auth)]
        accepted == [called EXCEPT !.pc = "rug_roll", !.paid = TRUE, !.mutations = @ + 1,
                        !.trace = Log(Log(Log(@, "Payment"), "Info"), "Payment")]
        rejected == Terminate(called, "Payment", 402)
    IN  /\ h.pc = "pay"
        /\ InvoiceGuardFree(id)
        /\ store' = r.store
        /\ invoices' = r.invoices
        /\ IF r.result = "Ok"
           THEN /\ h' = accepted
                /\ settled' = [settled EXCEPT ![id] = @ + 1]
                /\ wallet' = [wallet EXCEPT ![a].debited = @ + invoices[id].amount]
                /\ UNCHANGED <<traces, committed, ended>>
           ELSE /\ h' = rejected
                /\ traces' = PushBack(traces, rejected.trace)
                /\ committed' = Append(committed, rejected.trace)
                /\ ended' = EndOther
                /\ UNCHANGED <<settled, wallet>>
        /\ UNCHANGED <<ilock, pay, ret, chaos, nreq>>
        /\ UNCHANGED sideVars

\* lines 226-233 (and 273-299 on a miss): roll_rug_pull; a miss removes
\* Authorization and goes on to the upstream
HRollRugPull ==
    LET r == RollRugPull(chaos)
        rolled == [h EXCEPT !.rolls = Append(@, "rug")]
        hh == IF r.out THEN Terminate(rolled, "Chaos", 500)
              ELSE ResolveAndForward(rolled)
    IN  /\ h.pc = "rug_roll"
        /\ ChaosLock("rug")
        /\ chaos' = r.chaos
        /\ h' = hh
        /\ IF hh.pc = "done"
           THEN /\ traces' = PushBack(traces, hh.trace)
                /\ committed' = Append(committed, hh.trace)
                /\ ended' = EndOther
           ELSE UNCHANGED <<traces, committed, ended>>
        /\ UNCHANGED <<ledgerVars, nreq>>
        /\ replay' = Lockstep(r, RollRugPull(replay.chaos))
        /\ UNCHANGED <<calls, acct, tui, task>>
        /\ mutex' = mutex

\* lines 246-269: the challenge: create_invoice(agent_id, 0.01) and the 402
HChallenge ==
    LET hh == Terminate([h EXCEPT !.mutations = @ + 1, !.created = @ + 1,
                                  !.challenge = Len(invoices) + 1], "Payment", 402)
    IN  /\ h.pc = "challenge"
        /\ invoices' = CreateInvoice(invoices, h.req.agent, InvoiceAmount)
        /\ h' = hh
        /\ traces' = PushBack(traces, hh.trace)
        /\ committed' = Append(committed, hh.trace)
        /\ ended' = EndOther
        /\ UNCHANGED <<store, ilock, pay, ret, settled, wallet, chaos, nreq>>
        /\ UNCHANGED sideVars

\* lines 301-328: the upstream answers with a status, or the send fails (o = 0)
HUpstreamReturns(o) ==
    LET failed == Terminate(h, "Upstream", 502)
        answered == [Terminate(h, "Upstream", o) EXCEPT
                        !.up_status = o, !.up_headers = UpstreamHeaders(o),
                        !.resp_headers = RemoveHopByHopHeaders(UpstreamHeaders(o))]
    IN  /\ h.pc = "upstream"
        /\ IF o = 0
           THEN /\ h' = failed
                /\ traces' = PushBack(traces, failed.trace)
                /\ committed' = Append(committed, failed.trace)
                /\ ended' = EndOther
           ELSE /\ h' = answered
                /\ traces' = RingPush(traces, answered.trace)
                /\ committed' = Append(committed, answered.trace)
                /\ ended' = EndUpstream
        /\ UNCHANGED <<ledgerVars, chaos, nreq>>
        /\ UNCHANGED sideVars

\* POST /_xdr/chaos: update_chaos_config
HSetConfig(cfg) ==
    /\ ChaosLock("set_config")
    /\ chaos' = SetConfig(chaos, cfg)
    /\ UNCHANGED <<ledgerVars, traces, h, nreq, committed, ended>>
    /\ replay' = [chaos |-> SetConfig(replay.chaos, cfg), installed |-> TRUE,
                  agree |-> TRUE]
    /\ UNCHANGED <<calls, acct, tui, task>>
    /\ mutex' = [mutex EXCEPT !.entered = @ \/ Sleeping]

Init == InitLedger

Next ==
    \/ \E r \in Requests : HArrive(r, MaxRequests)
    \/ HInjectLatency1
    \/ HWake
    \/ HRollNetworkFailure1
    \/ HInjectLatency2
    \/ HRollNetworkFailure2
    \/ HIdentity
    \/ HRollPaymentFailure
    \/ HPayInvoice
    \/ HRollRugPull
    \/ HChallenge
    \/ \E o \in UpstreamOutcomes : HUpstreamReturns(o)
    \/ \E cfg \in ChaosConfigs : HSetConfig(cfg)

Spec == Init /\ [][Next]_vars

(***************************************************************************)
(* The ring specification: requests that do not engage the gate, with the  *)
(* chaos engine as constructed, from an empty buffer and from the buffer   *)
(* that RingCapacity - 2 requests answered by the upstream leave behind.   *)
(***************************************************************************)
RingRequests ==
    {r \in Requests : r.agent = "a1" /\ ~ShouldGate(r) /\ r.auth = << >>}

RingPrefills == {0, RingCapacity - 2}

\* the request GET /data of "a1" with X-Upstream-Host, and what is left of it once
\* the upstream has answered 200
PrefillRequest == [NoRequest EXCEPT !.agent = "a1", !.upstream_host = TRUE]

PrefillTrace(i) ==
    Finish(Log(Log(Log([TraceNew(i, "unknown") EXCEPT !.agent_id = "a1"],
                       "Info"), "Upstream"), "Upstream"), 200)

PrefillHandler(n) ==
    IF n = 0 THEN IdleHandler
    ELSE [IdleHandler EXCEPT !.pc = "done", !.req = PrefillRequest,
             !.trace = PrefillTrace(n), !.resp = 200, !.commits = 1,
             !.rolls = <<"latency", "network", "latency", "network">>,
             !.upstream_calls = 1, !.mutations = IF n = 1 THEN 1 ELSE 0,
             !.store0 = IF n = 1 THEN << >> ELSE RegisterOrGet(<< >>, "a1")]

InitRing ==
    \E n \in RingPrefills :
        /\ store = IF n = 0 THEN << >> ELSE RegisterOrGet(<< >>, "a1")
        /\ invoices = << >>
        /\ ilock = [i \in InvoiceIds |-> "none"]
        /\ pay = [t \in Payers |-> Idle]
        /\ ret = NoReturn
        /\ settled = [i \in InvoiceIds |-> 0]
        /\ wallet = IF n = 0 THEN [a \in Agents |-> [base |-> 0, debited |-> 0]]
                    ELSE WalletOnCreate([a \in Agents |-> [base |-> 0, debited |-> 0]],
                                        << >>, "a1")
        /\ chaos = NewChaos
        /\ traces = [i \in 1..n |-> PrefillTrace(i)]
        /\ h = PrefillHandler(n)
        /\ nreq = n
        /\ committed = [i \in 1..n |-> PrefillTrace(i)]
        /\ ended = [upstream |-> n, other |-> 0]
        /\ calls = NoCalls
        /\ replay = [chaos |-> NewChaos, installed |-> FALSE, agree |-> TRUE]
        /\ acct = Account64
        /\ mutex = NewMutex
        /\ tui = IdleTui
        /\ task = NoTasks

\* MaxRingRequests more requests after the prefill
RingLimit ==
    IF nreq >= RingCapacity - 2 THEN RingCapacity - 2 + MaxRingRequests
    ELSE MaxRingRequests

NextRing ==
    \/ \E r \in RingRequests : HArrive(r, RingLimit)
    \/ HInjectLatency1
    \/ HRollNetworkFailure1
    \/ HInjectLatency2
    \/ HRollNetworkFailure2
    \/ HIdentity
    \/ \E o \in UpstreamOutcomes : HUpstreamReturns(o)

SpecRing == InitRing /\ [][NextRing]_vars

(***************************************************************************)
(* Claims about the pipeline, checked under Spec and SpecRing.             *)
(***************************************************************************)
\* the request in flight was ended by a hit of roll_network_failure
EndedByNetworkFailure ==
    /\ h.pc = "done"
    /\ Len(h.rolls) > 0
    /\ h.rolls[Len(h.rolls)] = "network"
    /\ h.resp \in {503, 429, 504}

\* C1: when the response of a data-plane request is returned, exactly one trace has
\* been appended to the buffer for it, and its status_code is the status of the response.
C1_OneTracePerRequest ==
    h.pc = "done" =>
        /\ h.commits = 1
        /\ Len(traces) > 0
        /\ traces[Len(traces)] = h.trace
        /\ h.trace.req = nreq
        /\ h.trace.status_code = h.resp

\* C7: the trace buffer never holds more than 1000 traces.
C7_BufferBounded == Len(traces) <= RingCapacity

Min(a, b) == IF a <= b THEN a ELSE b

\* C8: after n requests that each ended with an upstream response, the buffer holds
\* exactly the last min(n, 1000) committed traces, in commit order.
C8_RingKeepsLast ==
    ended.other = 0 =>
        LET n == ended.upstream
            k == Min(n, RingCapacity)
        IN  /\ Len(committed) = n
            /\ Len(traces) = k
            /\ \A i \in 1..k :
                  /\ traces[i] = committed[n - k + i]
                  /\ traces[i].req = n - k + i

\* two insertions at capacity: 1002 requests, 1000 traces, the oldest of request 3
C8_Witness ==
    /\ ended.other = 0
    /\ ended.upstream = RingCapacity + 2
    /\ Len(traces) = RingCapacity
    /\ traces[1].req = 3

\* C9: a request without X-Agent-ID that no network-failure hit ended gets 400, changes
\* nothing in the ledger, makes no upstream call, and commits one trace with status 400.
C9_MissingAgentId ==
    (h.pc = "done" /\ h.req.agent = "none" /\ ~EndedByNetworkFailure) =>
        /\ h.resp = 400
        /\ h.mutations = 0
        /\ h.upstream_calls = 0
        /\ h.commits = 1
        /\ Len(traces) > 0
        /\ traces[Len(traces)] = h.trace
        /\ h.trace.status_code = 400

IsPrefix(s, t) == Len(s) <= Len(t) /\ SubSeq(t, 1, Len(s)) = s

\* C10: within one request the chaos engine is called in the order inject_latency
\* once, roll_network_failure once, roll_payment_failure once only if the request
\* entered settlement, roll_rug_pull once only if pay_invoice succeeded, and no more:
\* the calls made so far are always an initial part of that sequence, and a finished
\* request that carried X-Agent-ID has made at least the first two.
C10_RollOrder ==
    LET order == <<"latency", "network">>
                 \o (IF h.settlement THEN <<"payment">> ELSE << >>)
                 \o (IF h.paid THEN <<"rug">> ELSE << >>)
    IN  /\ IsPrefix(h.rolls, order)
        /\ (h.pc = "done" /\ h.req.agent # "none") => Len(h.rolls) >= 2

(***************************************************************************)
(* Claims about the ledger, checked under SpecLedger.                      *)
(***************************************************************************)
\* a pay_invoice call returns in this step; ret' then describes the call
Returned ==
    \/ ret' # ret
    \/ \E t \in Payers : pay[t].pc = "agent" /\ pay'[t].pc = "idle"

\* the paid invoices issued to agent a
PaidInvoicesOf(a) ==
    {i \in DOMAIN invoices : invoices[i].is_paid /\ invoices[i].agent_id = a}

RECURSIVE SumAmounts(_)
SumAmounts(ids) ==
    IF ids = {} THEN 0
    ELSE LET i == CHOOSE x \in ids : TRUE
         IN  invoices[i].amount + SumAmounts(ids \ {i})

\* C2: in every reachable ledger state every agent has balance >= 0 and
\* 0 <= total_spend <= budget_limit, whatever amount set_balance was given.
C2_WalletInvariant ==
    \A a \in DOMAIN store :
        /\ store[a].balance_usdc >= 0
        /\ 0 <= store[a].total_spend
        /\ store[a].total_spend <= store[a].budget_limit

\* C3: a pay_invoice call is all-or-nothing: it returns a receipt and payment_count
\* grew by 1, total_spend grew by the amount, balance shrank by the amount and the
\* invoice became paid (nothing else changed), or it returns an error and no agent
\* field and no invoice field changed.
C3_AllOrNothing ==
    [][Returned =>
        LET id == ret'.inv
            a == ret'.agent
        IN  \/ /\ ret'.result = "Ok"
               /\ id \in DOMAIN invoices /\ a \in DOMAIN store
               /\ DOMAIN store' = DOMAIN store
               /\ store'[a].payment_count = store[a].payment_count + 1
               /\ store'[a].total_spend = store[a].total_spend + invoices[id].amount
               /\ store'[a].balance_usdc = store[a].balance_usdc - invoices[id].amount
               /\ store'[a].budget_limit = store[a].budget_limit
               /\ store'[a].is_active = store[a].is_active
               /\ \A b \in DOMAIN store \ {a} : store'[b] = store[b]
               /\ ~invoices[id].is_paid /\ invoices'[id].is_paid
               /\ invoices'[id].amount = invoices[id].amount
               /\ invoices'[id].agent_id = invoices[id].agent_id
               /\ Len(invoices') = Len(invoices)
               /\ \A j \in DOMAIN invoices \ {id} : invoices'[j] = invoices[j]
            \/ /\ ret'.result # "Ok"
               /\ store' = store
               /\ invoices' = invoices
      ]_vars

C3_Witness ==
    /\ ret.result = "Safety Limit: Budget cap exceeded"
    /\ \E i \in DOMAIN invoices : invoices[i].is_paid /\ settled[i] = 1

\* C4: pay_invoice returns the error of the first failing check in the order invoice
\* exists, unpaid, owned by the caller, agent exists, balance >= amount,
\* total_spend + amount <= budget_limit, and an error mutates nothing.
FirstFailingCheck(id, a) ==
    IF id \notin DOMAIN invoices THEN "Invoice invalid"
    ELSE IF invoices[id].is_paid THEN "Invoice already paid"
    ELSE IF invoices[id].agent_id # a THEN "Invoice belongs to another agent"
    ELSE IF a \notin DOMAIN store THEN "Agent not found"
    ELSE IF ~(store[a].balance_usdc >= invoices[id].amount)
         THEN "Wallet Exhausted: Insufficient funds"
    ELSE IF ~(store[a].total_spend + invoices[id].amount <= store[a].budget_limit)
         THEN "Safety Limit: Budget cap exceeded"
    ELSE "Ok"

C4_OrderedChecks ==
    [][Returned =>
        /\ ret'.result = FirstFailingCheck(ret'.inv, ret'.agent)
        /\ ret'.result # "Ok" => store' = store /\ invoices' = invoices
      ]_vars

\* a call on a paid invoice of another agent fails both the second and the third
\* check and gets the error of the second; a call by another agent left an invoice unpaid
C4_Witness ==
    /\ ret.result = "Invoice already paid"
    /\ invoices[ret.inv].agent_id # ret.agent
    /\ \E i \in DOMAIN invoices : ~invoices[i].is_paid /\ settled[i] = 0

\* C5: among all pay_invoice calls with the same invoice id at most one succeeds:
\* the invoice is paid exactly when one call succeeded, and each agent was debited
\* once per paid invoice.
C5_PaidAtMostOnce ==
    /\ \A i \in InvoiceIds :
          /\ settled[i] <= 1
          /\ settled[i] = 1 => i \in DOMAIN invoices /\ invoices[i].is_paid
          /\ i \in DOMAIN invoices /\ invoices[i].is_paid => settled[i] = 1
    /\ \A a \in DOMAIN store :
          store[a].payment_count = Cardinality(PaidInvoicesOf(a))

\* the owner's second call on an invoice that was settled is refused
C5_Witness ==
    /\ ret.result = "Invoice already paid"
    /\ settled[ret.inv] = 1
    /\ invoices[ret.inv].agent_id = ret.agent

\* C6: concurrent pay_invoice calls for different invoices of one agent are atomic in
\* their checks and debit: total_spend never exceeds budget_limit, a payment never
\* takes the balance below zero, and balance and total_spend are those of the
\* successful calls applied one after another.
C6_AtomicDebit ==
    \A a \in DOMAIN store :
        /\ store[a].total_spend <= store[a].budget_limit
        /\ store[a].total_spend = SumAmounts(PaidInvoicesOf(a))
        /\ store[a].balance_usdc = wallet[a].base - wallet[a].debited
        /\ wallet[a].base >= 0 => store[a].balance_usdc >= 0

\* two calls of one agent overlapped, one was paid and the other hit the cap
C6_Witness ==
    /\ ret.overlapped
    /\ ret.result = "Safety Limit: Budget cap exceeded"
    /\ store[ret.agent].total_spend > 0

(***************************************************************************)
(* Further claims about the pipeline, checked under Spec.                  *)
(***************************************************************************)
\* C11: a request on which the network-failure roll hits ends there, before identity
\* enforcement and registration: the client gets the injected code, the committed
\* trace has that status and a Chaos event, and no agent and no invoice is created
\* and no upstream call is made.
C11_NetworkFailureFirst ==
    EndedByNetworkFailure =>
        /\ h.commits = 1
        /\ Len(traces) > 0
        /\ traces[Len(traces)] = h.trace
        /\ h.trace.status_code = h.resp
        /\ \E i \in DOMAIN h.trace.events : h.trace.events[i] = "Chaos"
        /\ store = h.store0
        /\ Len(invoices) = h.invs0
        /\ h.upstream_calls = 0

(***************************************************************************)
(* The chaos engine alone: tasks call set_config and the rolls in any      *)
(* order; every call runs under the mutex of the engine and is one step.   *)
(***************************************************************************)
\* set_config(cfg); stale tells that the PRNG had drawn since it was last seeded
CSetConfig(cfg) ==
    /\ ChaosLock("set_config")
    /\ chaos' = SetConfig(chaos, cfg)
    /\ calls' = [made |-> << >>, stale |-> chaos.rng # RngSeed(chaos.config.seed)]
    /\ UNCHANGED <<ledgerVars, traces, h, nreq, committed, ended, replay, acct, tui, task>>
    /\ mutex' = mutex

CCall(op) ==
    LET r == Call(chaos, op)
    IN  /\ ChaosLock(op)
        /\ Len(calls.made) < MaxCalls
        /\ chaos' = r.chaos
        /\ calls' = [calls EXCEPT !.made = Append(@, r.entry)]
        /\ UNCHANGED <<ledgerVars, traces, h, nreq, committed, ended, replay, acct, tui, task>>
        /\ mutex' = [mutex EXCEPT !.entered = @ \/ Sleeping]

CRollNetworkFailure == CCall("network")
CRollPaymentFailure == CCall("payment")
CRollRugPull == CCall("rug")
CInjectLatency == CCall("latency")

NextChaos ==
    \/ \E cfg \in EngineConfigs : CSetConfig(cfg)
    \/ CRollNetworkFailure
    \/ CRollPaymentFailure
    \/ CRollRugPull
    \/ CInjectLatency

SpecChaos == InitLedger /\ [][NextChaos]_vars

\* the calls ops made one after another on an engine seeded from cfg.seed with cfg
\* installed: the engine at the end and what each call returned
RECURSIVE Replayed(_, _)
Replayed(cfg, ops) ==
    IF ops = << >> THEN [chaos |-> [config |-> cfg, rng |-> RngSeed(cfg.seed)],
                         made |-> << >>]
    ELSE LET before == Replayed(cfg, SubSeq(ops, 1, Len(ops) - 1))
             r == Call(before.chaos, ops[Len(ops)])
         IN  [chaos |-> r.chaos, made |-> Append(before.made, r.entry)]

\* C12: set_config(cfg) reseeds the PRNG from cfg.seed and installs cfg in one step:
\* the engine always holds the installed config together with the PRNG state that
\* seeding from its seed and the calls made since give, and what those calls returned
\* is what they return on an engine that saw nothing before cfg.
C12_SetConfigAtomic ==
    LET r == Replayed(chaos.config, [i \in DOMAIN calls.made |-> calls.made[i].op])
    IN  /\ chaos = r.chaos
        /\ calls.made = r.made

\* a config installed on an engine whose PRNG had drawn, then MaxCalls calls, one a hit
C12_Witness ==
    /\ calls.stale
    /\ Len(calls.made) = MaxCalls
    /\ \E i \in DOMAIN calls.made : calls.made[i].op = "network" /\ calls.made[i].out # 0

\* C14: with chaos enabled roll_network_failure returns None on every call when
\* global_failure_rate is 0.0 and one of 503, 429, 504 on every call when it is 1.0;
\* with chaos disabled it returns None and roll_payment_failure and roll_rug_pull
\* return false, whatever the rates.
C14_RatesAndDisabled ==
    \A i \in DOMAIN calls.made :
        LET e == calls.made[i]
            cfg == chaos.config
        IN  /\ (e.op = "network" /\ cfg.enabled /\ cfg.global_failure_rate = 0)
                   => e.out = 0
            /\ (e.op = "network" /\ cfg.enabled /\ cfg.global_failure_rate = 100)
                   => e.out \in {503, 429, 504}
            /\ (e.op \in {"network", "payment", "rug"} /\ ~cfg.enabled) => e.out = 0

\* the three rolls made on a disabled engine whose rates are all 1.0
C14_Witness ==
    /\ ~chaos.config.enabled
    /\ chaos.config.global_failure_rate = 100
    /\ chaos.config.payment_failure_rate = 100
    /\ chaos.config.rug_rate = 100
    /\ \A op \in {"network", "payment", "rug"} :
           \E i \in DOMAIN calls.made : calls.made[i].op = op

\* C15: inject_latency never suspends the caller when chaos is disabled or
\* max_latency_ms is 0; when it suspends, the delay lies in
\* [min_latency_ms, max_latency_ms].
C15_LatencyRange ==
    \A i \in DOMAIN calls.made :
        LET e == calls.made[i]
            cfg == chaos.config
        IN  e.op = "latency" =>
                /\ (~cfg.enabled \/ cfg.max_latency_ms = 0) => ~e.slept
                /\ e.slept => /\ cfg.min_latency_ms <= e.out
                              /\ e.out <= cfg.max_latency_ms

\* two suspensions with different delays under a range that starts above 0
C15_Witness ==
    /\ chaos.config.min_latency_ms > 0
    /\ \E i, j \in DOMAIN calls.made :
          /\ calls.made[i].op = "latency" /\ calls.made[i].slept
          /\ calls.made[j].op = "latency" /\ calls.made[j].slept
          /\ calls.made[i].out # calls.made[j].out

(***************************************************************************)
(* Two runs of the proxy.  The first is the pipeline above, with the chaos *)
(* config changed only between requests and requests served only once a    *)
(* config was installed.  The second run has another past; it is given the *)
(* same set_config calls and its engine the same calls as the first makes. *)
(***************************************************************************)
\* seed 42, global_failure_rate 1.0, no latency
S5Config == [DefaultConfig EXCEPT !.enabled = TRUE, !.seed = 42,
                                  !.global_failure_rate = 100]

\* the engine of the second run when the config is installed: as constructed, or
\* after two calls under another config
ReplayStarts ==
    { NewChaos,
      Replayed([DefaultConfig EXCEPT !.enabled = TRUE, !.seed = 7,
                                     !.global_failure_rate = 50,
                                     !.min_latency_ms = 0, !.max_latency_ms = 1],
               <<"latency", "network">>).chaos }

\* GET /data with and without X-Agent-ID, and the challenge and the settlement of "a1"
ReplayRequests ==
    {r \in Requests :
        /\ r.upstream_host /\ ~r.simulate
        /\ \/ ~r.paid_path /\ r.auth = << >> /\ r.agent \in {"a1"}
           \/ r.paid_path /\ r.agent \in {"a1", "none"}
                          /\ r.auth \in {<< >>, <<"L402", "_", Uuid(1)>>}}

InitReplay ==
    /\ store = << >>
    /\ invoices = << >>
    /\ ilock = [i \in InvoiceIds |-> "none"]
    /\ pay = [t \in Payers |-> Idle]
    /\ ret = NoReturn
    /\ settled = [i \in InvoiceIds |-> 0]
    /\ wallet = [a \in Agents |-> [base |-> 0, debited |-> 0]]
    /\ chaos = NewChaos
    /\ traces = << >>
    /\ h = IdleHandler
    /\ nreq = 0
    /\ committed = << >>
    /\ ended = [upstream |-> 0, other |-> 0]
    /\ calls = NoCalls
    /\ \E c \in ReplayStarts : replay = [chaos |-> c, installed |-> FALSE, agree |-> TRUE]
    /\ acct = Account64
    /\ mutex = NewMutex
    /\ tui = IdleTui
    /\ task = NoTasks

RSetConfig(cfg) == h.pc \in {"idle", "done"} /\ HSetConfig(cfg)

RArrive(r) == replay.installed /\ HArrive(r, MaxReplayRequests)

NextReplay ==
    \/ \E cfg \in ChaosConfigs : RSetConfig(cfg)
    \/ \E r \in ReplayRequests : RArrive(r)
    \/ HInjectLatency1
    \/ HWake
    \/ HRollNetworkFailure1
    \/ HInjectLatency2
    \/ HRollNetworkFailure2
    \/ HIdentity
    \/ HRollPaymentFailure
    \/ HPayInvoice
    \/ HRollRugPull
    \/ HChallenge
    \/ \E o \in UpstreamOutcomes : HUpstreamReturns(o)

SpecReplay == InitReplay /\ [][NextReplay]_vars

\* since the config was installed in both runs, every call on the engine returned the
\* same in both and left both engines in the same state
ReplayAgrees == replay.installed => (replay.agree /\ replay.chaos = chaos)

\* C13: two runs that install the same ChaosConfig and then process the same requests
\* one after another get the same chaos outcomes, hence the same status codes; with
\* seed 42 and global_failure_rate 1.0 every request gets 503, 429 or 504.
C13_Reproducible ==
    /\ ReplayAgrees
    /\ (h.pc = "done" /\ chaos.config = S5Config) => h.resp \in {503, 429, 504}

(***************************************************************************)
(* Claims about the payment gate, checked under Spec.                      *)
(***************************************************************************)
\* the request in flight asks for a gated resource
Gated == h.req.paid_path \/ h.req.simulate

\* the request in flight is past the identity check of line 177
Named == h.pc # "idle" /\ h.trace.agent_id = h.req.agent /\ h.req.agent # "none"

\* the invoice that the Authorization of the request in flight names (0: none)
TokenInvoice == InvoiceKey(ReplaceL402(h.req.auth))

\* C16: the gate engages if and only if the path contains "paid" or X-Simulate-Payment
\* is present: a request with neither never creates an invoice, never calls
\* pay_invoice, never rolls payment failure or rug pull and changes no wallet apart
\* from registering its agent; a request with either, once identified, is challenged
\* or enters settlement.
C16_GateIff ==
    h.pc # "idle" =>
        /\ ~Gated =>
              /\ h.created = 0 /\ h.pay_calls = 0 /\ ~h.settlement /\ ~h.paid
              /\ h.pc \notin {"challenge", "payment_roll", "pay", "rug_roll"}
              /\ Len(invoices) = h.invs0
              /\ \A i \in DOMAIN h.rolls : h.rolls[i] \notin {"payment", "rug"}
              /\ \A a \in DOMAIN h.store0 : a \in DOMAIN store /\ store[a] = h.store0[a]
              /\ DOMAIN store \subseteq DOMAIN h.store0 \cup {h.req.agent}
        /\ (Gated /\ Named) =>
              \/ h.pc = "challenge" \/ h.created = 1
              \/ h.settlement

\* a request that is not gated reached the upstream although it carried the L402
\* token of an unpaid invoice of its agent
C16_Witness ==
    /\ h.pc = "done" /\ ~Gated /\ h.resp = 200
    /\ StartsWithL402(h.req.auth)
    /\ TokenInvoice \in DOMAIN invoices
    /\ ~invoices[TokenInvoice].is_paid
    /\ invoices[TokenInvoice].agent_id = h.req.agent

\* C17: a gated request reaches the upstream only after pay_invoice succeeded within
\* that request and the rug-pull roll missed, and then without Authorization; a gated
\* request without a successful settlement ends with 402 or an earlier terminal
\* status and without an upstream call.
C17_PaidBeforeUpstream ==
    Gated =>
        /\ h.upstream_calls > 0 =>
              /\ h.paid /\ h.pay_calls = 1
              /\ Len(h.rolls) > 0 /\ h.rolls[Len(h.rolls)] = "rug"
              /\ \A i \in DOMAIN h.trace.events : h.trace.events[i] # "Chaos"
              /\ ~h.fwd_auth
              /\ invoices[TokenInvoice].is_paid
        /\ (h.pc = "done" /\ ~h.paid) =>
              /\ h.upstream_calls = 0
              /\ h.resp \in {402, 400, 503, 429, 504}

\* a settlement whose request the upstream answered
C17_Witness ==
    /\ h.pc = "done" /\ Gated /\ h.paid
    /\ h.req.auth # << >>
    /\ h.upstream_calls = 1 /\ h.resp = 200

\* C18: a gated request of an identified agent without an L402 Authorization, unless
\* a network failure ended it, is challenged: one new unpaid invoice of 0.01 for the
\* agent, 402 with that invoice id, the agent registered with its wallet as it was
\* (as new, balance 100.00, if it was unknown), no pay_invoice and no upstream call.
C18_Challenge ==
    LET a == h.req.agent
        n == Len(invoices)
    IN  (/\ h.pc = "done" /\ Gated /\ a # "none"
         /\ (h.req.auth = << >> \/ h.req.auth[1] # "L402")
         /\ ~EndedByNetworkFailure) =>
            /\ h.resp = 402
            /\ h.created = 1 /\ n = h.invs0 + 1
            /\ invoices[n] = [id |-> n, amount |-> 1, is_paid |-> FALSE, agent_id |-> a]
            /\ h.challenge = n
            /\ a \in DOMAIN store
            /\ a \in DOMAIN h.store0 => store[a] = h.store0[a]
            /\ a \notin DOMAIN h.store0 =>
                  /\ store[a].balance_usdc = 10000 /\ store[a].total_spend = 0
                  /\ store[a].payment_count = 0 /\ store[a].budget_limit = 1000
            /\ h.pay_calls = 0
            /\ h.upstream_calls = 0

\* the second invoice, issued to an agent the ledger did not know, on a request that
\* carried another scheme's Authorization or none
C18_Witness ==
    /\ h.pc = "done" /\ h.challenge = 2
    /\ h.req.agent \notin DOMAIN h.store0
    /\ invoices[2].agent_id = h.req.agent
    /\ invoices[1].agent_id # h.req.agent

\* a hit of roll_rug_pull ended the request in flight
RugPulled ==
    /\ h.pc = "done"
    /\ Len(h.rolls) > 0 /\ h.rolls[Len(h.rolls)] = "rug"
    /\ h.trace.events[Len(h.trace.events)] = "Chaos"

\* C20: roll_rug_pull is called only after pay_invoice succeeded, and a hit does not
\* undo the settlement: the agent stays debited and the invoice paid, no upstream
\* call is made, the client gets 500 and the committed trace has status 500.
C20_RugPullKeepsPayment ==
    LET a == h.req.agent
        id == TokenInvoice
    IN  /\ (\E i \in DOMAIN h.rolls : h.rolls[i] = "rug") => h.paid /\ h.pay_calls = 1
        /\ RugPulled =>
              /\ h.resp = 500 /\ h.trace.status_code = 500
              /\ h.commits = 1 /\ traces[Len(traces)] = h.trace
              /\ h.upstream_calls = 0
              /\ invoices[id].is_paid /\ settled[id] = 1
              /\ store[a].balance_usdc = h.store0[a].balance_usdc - invoices[id].amount
              /\ store[a].total_spend = h.store0[a].total_spend + invoices[id].amount
              /\ store[a].payment_count = h.store0[a].payment_count + 1

C20_Witness ==
    /\ RugPulled
    /\ store[h.req.agent].balance_usdc = 9999
    /\ chaos.config.rug_rate = 100

(***************************************************************************)
(* The budget cap with f64 amounts: agent "a2" after set_balance("a2",     *)
(* 100.0), then settlement attempts of 0.01 one after another, each a      *)
(* challenge and its settlement.                                           *)
(***************************************************************************)
MaxAttempts == 1001       \* settlement attempts of one run

InitBudget ==
    /\ store = << >>
    /\ invoices = << >>
    /\ ilock = [i \in InvoiceIds |-> "none"]
    /\ pay = [t \in Payers |-> Idle]
    /\ ret = NoReturn
    /\ settled = [i \in InvoiceIds |-> 0]
    /\ wallet = [a \in Agents |-> [base |-> 0, debited |-> 0]]
    /\ chaos = NewChaos
    /\ traces = << >>
    /\ h = IdleHandler
    /\ nreq = 0
    /\ committed = << >>
    /\ ended = [upstream |-> 0, other |-> 0]
    /\ calls = NoCalls
    /\ replay = [chaos |-> NewChaos, installed |-> FALSE, agree |-> TRUE]
    /\ acct = Account64
    /\ mutex = NewMutex
    /\ tui = IdleTui
    /\ task = NoTasks

BSettle ==
    /\ acct.attempts < MaxAttempts
    /\ acct' = Settle64(acct)
    /\ UNCHANGED <<ledgerVars, chaos, traces, h, nreq, committed, ended, calls, replay,
                   mutex, tui, task>>

NextBudget == BSettle

SpecBudget == InitBudget /\ [][NextBudget]_vars

\* the counts of the scenario: 1000 settlements, then refusals with 402 and the
\* budget-cap error
SettlementCounts ==
    /\ acct.attempts <= 1000 =>
          /\ acct.payment_count = acct.attempts
          /\ acct.attempts > 0 => acct.result = "Ok" /\ acct.status = 0
    /\ acct.attempts > 1000 =>
          /\ acct.result = "Safety Limit: Budget cap exceeded"
          /\ acct.status = 402
          /\ acct.payment_count = 1000

\* C19: the first 1000 settlements of 0.01 succeed, the 1001st is refused with 402 and
\* the budget-cap error, and the agent ends with payment_count 1000 and total_spend
\* 10.00, its budget_limit.
C19_BudgetCap ==
    /\ SettlementCounts
    /\ acct.attempts > 1000 => acct.total_spend = acct.budget_limit


(***************************************************************************)
(* The traces in the buffer.                                               *)
(***************************************************************************)
\* C26: every trace in the trace buffer has end_time, duration_ms and status_code
\* set and was finished exactly once; the buffer holds the traces appended last,
\* each as it was when it was appended (no event and no field of it changed since).
C26_FinishedAndFrozen ==
    /\ \A i \in 1..Len(traces) :
          /\ traces[i].end_time
          /\ traces[i].duration_ms
          /\ traces[i].status_code # 0
          /\ traces[i].finishes = 1
    /\ Len(traces) <= Len(committed)
    /\ traces = SubSeq(committed, Len(committed) - Len(traces) + 1, Len(committed))

\* the buffer after a challenge and the settlement that followed it
C26_Witness ==
    /\ Len(traces) = 2
    /\ traces[1].status_code = 402 /\ traces[1].events = <<"Info", "Payment">>
    /\ traces[2].status_code = 200 /\ Len(traces[2].events) > 2
    /\ h.pc = "done"


(***************************************************************************)
(* The Authorization value of a gated request.                             *)
(***************************************************************************)
\* the value starts with the literal prefix "L402 ", the space included
HasL402Prefix(token) == Len(token) >= 2 /\ token[1] = "L402" /\ token[2] = "_"

\* C25: a gated request enters settlement only when its Authorization value starts
\* with "L402 " (with the space), and the invoice id passed to pay_invoice is the rest
\* of the value after that prefix; with any other value, "L402" without the space
\* included, the request takes the challenge branch.
C25_L402Prefix ==
    /\ h.settlement => HasL402Prefix(h.req.auth)
    /\ h.pay_calls > 0 => h.pay_arg = SubSeq(h.req.auth, 3, Len(h.req.auth))
    /\ (h.pc = "done" /\ Gated /\ Named /\ h.commits = 1 /\ h.trace.events[2] # "Chaos"
          /\ ~HasL402Prefix(h.req.auth)) => h.created = 1


(***************************************************************************)
(* A payment-failure hit.                                                  *)
(***************************************************************************)
\* the request in flight was ended by a hit of roll_payment_failure
PaymentFailed ==
    /\ h.pc = "done"
    /\ h.rolls # << >> /\ h.rolls[Len(h.rolls)] = "payment"
    /\ h.trace.events # << >> /\ h.trace.events[Len(h.trace.events)] = "Chaos"

\* the store once the agent of the request in flight was registered on arrival
ArrivalStore ==
    IF h.req.agent \in DOMAIN h.store0 THEN h.store0
    ELSE h.store0 @@ (h.req.agent :>
            [id |-> h.req.agent, balance_usdc |-> InitialBalance, total_spend |-> 0,
             payment_count |-> 0, budget_limit |-> DEFAULT_BUDGET, is_active |-> TRUE])

\* the outcome pay_invoice would have on a ledger, the history left aside
WouldPay(st, invs, id, a) ==
    IF id \notin DOMAIN invs THEN "Invoice invalid"
    ELSE IF invs[id].is_paid THEN "Invoice already paid"
    ELSE IF invs[id].agent_id # a THEN "Invoice belongs to another agent"
    ELSE IF a \notin DOMAIN st THEN "Agent not found"
    ELSE IF st[a].balance_usdc < invs[id].amount THEN "Wallet Exhausted: Insufficient funds"
    ELSE IF st[a].total_spend + invs[id].amount > st[a].budget_limit
         THEN "Safety Limit: Budget cap exceeded"
    ELSE "Ok"

\* C24: a payment-failure hit in settlement comes before pay_invoice and leaves the
\* ledger untouched: pay_invoice is not called, the invoice named in the token and
\* every other invoice are as they were, the agent's balance, total_spend and
\* payment_count are as they were, the response is 402, and a settlement of that
\* invoice succeeds afterwards exactly if it would have succeeded without the hit.
C24_PaymentFailureFrame ==
    PaymentFailed =>
        /\ h.settlement /\ h.pay_calls = 0 /\ ~h.paid
        /\ h.resp = 402 /\ h.trace.status_code = 402 /\ h.commits = 1
        /\ h.upstream_calls = 0
        /\ invoices = h.invoices0
        /\ store = ArrivalStore
        /\ \A i \in DOMAIN invoices : settled[i] = (IF invoices[i].is_paid THEN 1 ELSE 0)
        /\ WouldPay(store, invoices, TokenInvoice, h.req.agent)
             = WouldPay(ArrivalStore, h.invoices0, TokenInvoice, h.req.agent)

\* a challenge, then a settlement ended by a payment-failure hit, then the settlement
\* of the same invoice that succeeded and was forwarded: the one payment is debited
C24_Witness ==
    /\ Len(committed) = 3
    /\ committed[1].status_code = 402 /\ committed[1].events = <<"Info", "Payment">>
    /\ committed[2].status_code = 402 /\ committed[2].events = <<"Info", "Chaos">>
    /\ committed[3].status_code = 200
    /\ h.pc = "done" /\ h.paid /\ TokenInvoice = 1 /\ h.req.agent = "a1"
    /\ invoices[1].is_paid /\ settled[1] = 1
    /\ store["a1"].payment_count = 1
    /\ store["a1"].balance_usdc = InitialBalance - InvoiceAmount


(***************************************************************************)
(* The response of a forwarded request.                                    *)
(***************************************************************************)
\* the hop-by-hop header names
HopByHop ==
    {"connection", "keep-alive", "proxy-authenticate", "proxy-authorization",
     "te", "trailer", "transfer-encoding", "upgrade", "content-length"}

\* the request in flight has ended, chaos is disabled and no roll ended the request
EndedWithoutChaos ==
    /\ h.pc = "done"
    /\ ~chaos.config.enabled
    /\ ~EndedByNetworkFailure
    /\ h.trace.events = << >> \/ h.trace.events[Len(h.trace.events)] # "Chaos"

\* C22 as stated: with chaos disabled the client of every data-plane request observes
\* the response of the upstream: its status, and its headers minus the hop-by-hop set.
C22_EveryRequestPassesThrough ==
    EndedWithoutChaos =>
        /\ h.up_status # 0
        /\ h.resp = h.up_status
        /\ h.resp_headers = h.up_headers \ HopByHop

\* C22, amended: with chaos disabled, a data-plane request is forwarded exactly if it
\* carries X-Agent-ID, the gate does not engage or pay_invoice succeeded, and its
\* upstream URL resolves; when the upstream answers a forwarded request, the status
\* the client observes is the status the upstream returned and the response headers
\* are the upstream's headers minus the hop-by-hop set; when the send fails the
\* client observes 502.
C22_ForwardedPassesThrough ==
    EndedWithoutChaos =>
        /\ h.upstream_calls = 1 <=>
              /\ h.req.agent # "none"
              /\ ~(h.req.paid_path \/ h.req.simulate) \/ h.paid
              /\ h.req.absolute \/ h.req.upstream_host
        /\ h.upstream_calls = 0 => h.up_status = 0 /\ h.resp \in {400, 402}
        /\ (h.upstream_calls = 1 /\ h.up_status = 0) => h.resp = 502
        /\ h.up_status # 0 =>
              /\ h.resp = h.up_status
              /\ h.trace.status_code = h.up_status
              /\ h.resp_headers = h.up_headers \ HopByHop
              /\ h.resp_headers \cap HopByHop = {}

\* a settled request answered 404 by the upstream, with hop-by-hop headers among the
\* upstream's headers
C22_Witness ==
    /\ EndedWithoutChaos
    /\ h.paid /\ h.up_status = 404 /\ h.resp = 404
    /\ h.up_headers \cap HopByHop # {}
    /\ "x-request-id" \in h.resp_headers


(***************************************************************************)
(* The suspension specification: requests that do not engage the gate,     *)
(* set_config at any time, and calls on the chaos engine made by other     *)
(* requests while the request in flight sleeps.                            *)
(***************************************************************************)
MaxSleepRequests == 1     \* data-plane requests in one run of the suspension specification
MaxAsleepCalls == 2       \* calls of other requests on the engine in one run

\* a call of another request on the engine while the request in flight sleeps
OtherCalls == Sleeping /\ Len(calls.made) < MaxAsleepCalls
SRollNetworkFailure == OtherCalls /\ CRollNetworkFailure
SRollPaymentFailure == OtherCalls /\ CRollPaymentFailure
SRollRugPull == OtherCalls /\ CRollRugPull
SInjectLatency == OtherCalls /\ CInjectLatency

\* the configurations installed in the suspension specification: two with a latency
\* range (one that always suspends the caller), and chaos disabled
SleepConfigs ==
    { [DefaultConfig EXCEPT !.enabled = TRUE, !.seed = 3,
                            !.min_latency_ms = 2, !.max_latency_ms = 3],
      [DefaultConfig EXCEPT !.enabled = TRUE, !.seed = 7, !.global_failure_rate = 50,
                            !.min_latency_ms = 0, !.max_latency_ms = 1],
      DefaultConfig }

\* POST /_xdr/chaos before a request or while the request in flight sleeps
SSetConfig(cfg) == (h.pc = "idle" \/ Sleeping) /\ HSetConfig(cfg)

NextSleep ==
    \/ \E r \in RingRequests : HArrive(r, MaxSleepRequests)
    \/ HInjectLatency1
    \/ HWake
    \/ HRollNetworkFailure1
    \/ HInjectLatency2
    \/ HRollNetworkFailure2
    \/ HIdentity
    \/ \E o \in UpstreamOutcomes : HUpstreamReturns(o)
    \/ \E cfg \in SleepConfigs : SSetConfig(cfg)
    \/ SRollNetworkFailure
    \/ SRollPaymentFailure
    \/ SRollRugPull
    \/ SInjectLatency

SpecSleep == InitLedger /\ [][NextSleep]_vars

\* C27: the chaos mutex is never held across a suspension: while the request in
\* flight sleeps in inject_latency nobody holds the guard, so every set_config call
\* and every call of another request on the engine can take the lock and complete.
C27_LockFreeWhileSleeping ==
    Sleeping =>
        /\ mutex.holder = "none"
        /\ \A cfg \in SleepConfigs : ENABLED SSetConfig(cfg)
        /\ Len(calls.made) < MaxAsleepCalls =>
              /\ ENABLED SRollNetworkFailure
              /\ ENABLED SRollPaymentFailure
              /\ ENABLED SRollRugPull
              /\ ENABLED SInjectLatency

\* a request asleep while another caller has taken the lock and returned
C27_Witness ==
    /\ Sleeping
    /\ h.delay > 0
    /\ mutex.entered
    /\ calls.made # << >>


(***************************************************************************)
(* The configurations set_config accepts.  set_config, POST /_xdr/chaos    *)
(* and the TUI validate nothing; a call that panics under the guard        *)
(* poisons the mutex, and lock().unwrap() panics on a poisoned mutex.      *)
(***************************************************************************)
MaxPoisonRequests == 2    \* data-plane requests in one run of this specification

\* a config with a latency range and rates 0, chaos disabled; the same range with
\* chaos enabled; a config with min_latency_ms > max_latency_ms; a config with a rate
\* above 1.0
AcceptedConfigs ==
    { [DefaultConfig EXCEPT !.max_latency_ms = 3],
      [DefaultConfig EXCEPT !.enabled = TRUE, !.seed = 3,
                            !.min_latency_ms = 2, !.max_latency_ms = 3],
      [DefaultConfig EXCEPT !.enabled = TRUE, !.seed = 3,
                            !.min_latency_ms = 3, !.max_latency_ms = 2],
      [DefaultConfig EXCEPT !.enabled = TRUE, !.seed = 5,
                            !.global_failure_rate = 150] }

\* the call on the engine that the request in flight is about to make
OpAt(pc) ==
    IF pc \in {"latency1", "latency2"} THEN "latency"
    ELSE IF pc \in {"network1", "network2"} THEN "network"
    ELSE IF pc = "payment_roll" THEN "payment"
    ELSE IF pc = "rug_roll" THEN "rug"
    ELSE "none"

\* the call on the engine panics: in lock().unwrap() when the mutex is poisoned, or
\* under the guard, which poisons the mutex; the handler's task ends without a
\* response and without appending its trace
HPanic ==
    /\ OpAt(h.pc) # "none"
    /\ mutex.holder = "none"
    /\ mutex.poisoned \/ Panics(chaos.config, OpAt(h.pc))
    /\ h' = [h EXCEPT !.pc = "panicked"]
    /\ mutex' = [mutex EXCEPT !.poisoned = TRUE]
    /\ UNCHANGED <<ledgerVars, chaos, traces, nreq, committed, ended>>
    /\ UNCHANGED <<calls, replay, acct, tui, task>>

\* POST /_xdr/chaos between two requests
PSetConfig(cfg) == h.pc \in {"idle", "done", "panicked"} /\ HSetConfig(cfg)

\* the TUI key 'c', first half: app.chaos.get_config()
TToggleGet ==
    /\ tui.pc = "idle"
    /\ h.pc \in {"idle", "done", "panicked"}
    /\ ChaosLock("get_config")
    /\ tui' = [pc |-> "toggle", cfg |-> chaos.config]
    /\ UNCHANGED <<ledgerVars, proxyVars>>
    /\ UNCHANGED <<calls, replay, acct, mutex, task>>

\* the config the TUI installs: enabled flipped, and a failure rate of 0.2 with
\* min_latency_ms = 200 when chaos gets enabled with global_failure_rate == 0.0
Toggled(cfg) ==
    IF ~cfg.enabled /\ cfg.global_failure_rate = 0
    THEN [cfg EXCEPT !.enabled = TRUE, !.global_failure_rate = 20,
                     !.min_latency_ms = 200]
    ELSE [cfg EXCEPT !.enabled = ~cfg.enabled]

\* the TUI key 'c', second half: app.chaos.set_config(new_cfg)
TToggleSet ==
    /\ tui.pc = "toggle"
    /\ ChaosLock("set_config")
    /\ chaos' = SetConfig(chaos, Toggled(tui.cfg))
    /\ replay' = [chaos |-> SetConfig(replay.chaos, Toggled(tui.cfg)),
                  installed |-> TRUE, agree |-> TRUE]
    /\ tui' = IdleTui
    /\ mutex' = [mutex EXCEPT !.entered = @ \/ Sleeping]
    /\ UNCHANGED <<ledgerVars, traces, h, nreq, committed, ended>>
    /\ UNCHANGED <<calls, acct, task>>

NextPoison ==
    \/ \E cfg \in AcceptedConfigs : PSetConfig(cfg)
    \/ TToggleGet
    \/ TToggleSet
    \/ \E r \in RingRequests : HArrive(r, MaxPoisonRequests)
    \/ HInjectLatency1
    \/ HWake
    \/ HRollNetworkFailure1
    \/ HInjectLatency2
    \/ HRollNetworkFailure2
    \/ HIdentity
    \/ \E o \in UpstreamOutcomes : HUpstreamReturns(o)
    \/ HPanic

SpecPoison == InitLedger /\ [][NextPoison]_vars

\* C23: whatever ChaosConfig has been installed through set_config (POST /_xdr/chaos
\* or the TUI toggle), min_latency_ms above max_latency_ms and rates above 1.0
\* included, no data-plane request ends without a response, and the chaos engine
\* stays usable: its mutex is never poisoned.
C23_AnyConfigServes ==
    /\ h.pc # "panicked"
    /\ ~mutex.poisoned


(***************************************************************************)
(* Cancellation.  When the client disconnects, the handler's future is     *)
(* dropped at the await it is suspended in: the sleep of inject_latency or *)
(* the send to the upstream.  Its locals are dropped with it.              *)
(***************************************************************************)
MaxCancelRequests == 2    \* data-plane requests in one run of this specification

\* chaos with a latency range that always suspends the caller, and chaos disabled
CancelConfigs ==
    { [DefaultConfig EXCEPT !.enabled = TRUE, !.seed = 3,
                            !.min_latency_ms = 2, !.max_latency_ms = 3],
      DefaultConfig }

\* CancelledTrace that appends the live trace of the cancelled request
CancelledTraceKept(buf, tr) == Append(buf, tr)

\* the trace buffer after the cancelled handler's live trace tr was dropped
CancelledTrace(buf, tr) == buf

\* the handler's task is cancelled at a suspension point
HCancel ==
    /\ h.pc \in {"sleep1", "sleep2", "upstream"}
    /\ h' = [h EXCEPT !.pc = "cancelled", !.delay = 0]
    /\ traces' = CancelledTrace(traces, h.trace)
    /\ mutex' = [mutex EXCEPT !.holder = "none", !.entered = FALSE]
    /\ UNCHANGED <<ledgerVars, chaos, nreq, committed, ended>>
    /\ UNCHANGED <<calls, replay, acct, tui, task>>

\* POST /_xdr/chaos between two requests
KSetConfig(cfg) == h.pc \in {"idle", "done", "cancelled"} /\ HSetConfig(cfg)

NextCancel ==
    \/ \E cfg \in CancelConfigs : KSetConfig(cfg)
    \/ \E r \in ReplayRequests : HArrive(r, MaxCancelRequests)
    \/ HInjectLatency1
    \/ HWake
    \/ HRollNetworkFailure1
    \/ HInjectLatency2
    \/ HRollNetworkFailure2
    \/ HIdentity
    \/ HRollPaymentFailure
    \/ HPayInvoice
    \/ HRollRugPull
    \/ HChallenge
    \/ \E o \in UpstreamOutcomes : HUpstreamReturns(o)
    \/ HCancel

SpecCancel == InitLedger /\ [][NextCancel]_vars

\* C29: when the task of a request is cancelled at a suspension point before its
\* trace is finished (in the latency sleep or while it awaits the upstream), no trace
\* of that request is appended to the buffer, no guard of the chaos mutex or of the
\* ledger stays held, and the ledger is left as the request made it: the agent it
\* registered, the invoices created so far and the payment it settled persist.
C29_CancelDropsTrace ==
    [][(h'.pc = "cancelled" /\ h.pc # "cancelled") =>
          /\ h.pc \in {"sleep1", "sleep2", "upstream"}
          /\ h.trace.finishes = 0
          /\ traces' = traces
          /\ committed' = committed
          /\ \A i \in 1..Len(traces') : traces'[i].req # nreq
          /\ h'.commits = 0 /\ h'.resp = 0
          /\ mutex'.holder = "none"
          /\ \A i \in InvoiceIds : ilock'[i] = "none"
          /\ store' = store /\ invoices' = invoices /\ settled' = settled
          /\ h.req.agent \in DOMAIN store'
          /\ Len(invoices') >= h.invs0
          /\ h.paid =>
                /\ invoices'[InvoiceKey(ReplaceL402(h.req.auth))].is_paid
                /\ settled'[InvoiceKey(ReplaceL402(h.req.auth))] = 1
                /\ store'[h.req.agent].payment_count >= 1]_vars

\* a request cancelled while it awaited the upstream, after its settlement: the
\* invoice is paid, the agent debited, and the buffer holds the challenge's trace only
C29_Witness ==
    /\ h.pc = "cancelled"
    /\ h.paid /\ h.upstream_calls = 1
    /\ invoices[1].is_paid
    /\ store["a1"].balance_usdc = InitialBalance - InvoiceAmount
    /\ Len(traces) = 1 /\ traces[1].req = 1
    /\ nreq = 2


(***************************************************************************)
(* The lock specification: concurrent calls on the ledger, each followed   *)
(* guard by guard.  A call first is made (the task is then inside the      *)
(* function, possibly waiting for a guard) and then takes its steps; a     *)
(* step that needs the guard of a key waits while another task holds it.   *)
(* The guards of a DashMap are those of the shard of the key; the model    *)
(* has one guard per key of each map.                                      *)
(***************************************************************************)
MaxLockCalls == 2         \* calls on the ledger started in one run of this specification

\* the names of the guards
InvoiceGuard(id) == "invoice " \o ToString(id)
AgentGuard(a) == "agent " \o a

\* no other task holds the guard
GuardFree(g, t) == \A u \in Payers \ {t} : g \notin task.run[u].held

\* PayLockOrder in which task t2 takes the agent first and the invoice second
PayLockOrderMixed(t) ==
    IF t = "t1" THEN <<"invoice", "agent">> ELSE <<"agent", "invoice">>

\* pay_invoice: invoices.get_mut(invoice_id) first, store.get_mut(agent_id) second
PayLockOrder(t) == <<"invoice", "agent">>

\* the ledgers the specification starts from: the empty one, and the one that
\* register_or_get("a1") and create_invoice("a1", 0.01) leave behind
LockStarts ==
    { [store |-> << >>, invoices |-> << >>],
      [store |-> RegisterOrGet(<< >>, "a1"),
       invoices |-> CreateInvoice(<< >>, "a1", InvoiceAmount)] }

InitLocks ==
    /\ \E l \in LockStarts :
          /\ store = l.store
          /\ invoices = l.invoices
          /\ wallet = [a \in Agents |->
                         IF a \in DOMAIN l.store
                         THEN [base |-> InitialBalance, debited |-> 0]
                         ELSE [base |-> 0, debited |-> 0]]
    /\ ilock = [i \in InvoiceIds |-> "none"]
    /\ pay = [t \in Payers |-> Idle]
    /\ ret = NoReturn
    /\ settled = [i \in InvoiceIds |-> 0]
    /\ chaos = NewChaos
    /\ traces = << >>
    /\ h = IdleHandler
    /\ nreq = 0
    /\ committed = << >>
    /\ ended = [upstream |-> 0, other |-> 0]
    /\ calls = NoCalls
    /\ replay = [chaos |-> NewChaos, installed |-> FALSE, agree |-> TRUE]
    /\ acct = Account64
    /\ mutex = NewMutex
    /\ tui = IdleTui
    /\ task = NoTasks

\* task t calls op: it is inside the function and has taken no guard yet
Called(t, op, pc, id, a, amount) ==
    /\ task.run[t].pc = "idle"
    /\ task.started < MaxLockCalls
    /\ task' = [task EXCEPT
                  !.started = @ + 1,
                  !.run[t] = [op |-> op, pc |-> pc, id |-> id, agent |-> a,
                              amount |-> amount, held |-> {},
                              last |-> [NoResult EXCEPT !.existed = a \in DOMAIN store]]]
    /\ UNCHANGED <<ledgerVars, proxyVars>>
    /\ UNCHANGED <<calls, replay, acct, mutex, tui>>

KCallRegister(t, a) == Called(t, "register_or_get", "get", 0, a, 0)
KCallSetBalance(t, a, amount) == Called(t, "set_balance", "entry", 0, a, amount)
KCallCreateInvoice(t, a, amount) ==
    Len(invoices) < MaxInvoices /\ Called(t, "create_invoice", "insert", 0, a, amount)
KCallGetState(t, a) == Called(t, "get_state", "get", 0, a, 0)
KCallListAllAgents(t) == Called(t, "list_all_agents", "iter", 0, "none", 0)
KCallPayInvoice(t, id, a) == Called(t, "pay_invoice", "lock1", id, a, 0)

\* the call of task t returns: it holds no guard any more
Return(t, last) == [IdleTask EXCEPT !.last = last]

\* register_or_get, lines 65-67: store.get(agent_id); an agent found is returned
\* with is_new = false
KRegisterGet(t) ==
    LET c == task.run[t]
        a == c.agent
    IN  /\ c.op = "register_or_get" /\ c.pc = "get"
        /\ GuardFree(AgentGuard(a), t)
        /\ IF a \in DOMAIN store
           THEN task' = [task EXCEPT !.run[t] =
                           Return(t, [c.last EXCEPT !.op = c.op, !.agent = a,
                                                    !.is_new = FALSE])]
           ELSE task' = [task EXCEPT !.run[t].pc = "entry"]
        /\ UNCHANGED <<ledgerVars, proxyVars>>
        /\ UNCHANGED <<calls, replay, acct, mutex, tui>>

\* register_or_get, lines 69-73: entry(..).or_insert_with(AgentState::new), and the
\* state returned with is_new = true
KRegisterEntry(t) ==
    LET c == task.run[t]
        a == c.agent
    IN  /\ c.op = "register_or_get" /\ c.pc = "entry"
        /\ GuardFree(AgentGuard(a), t)
        /\ store' = RegisterOrGet(store, a)
        /\ wallet' = WalletOnCreate(wallet, store, a)
        /\ task' = [task EXCEPT
                      !.created[a] = @ + 1,
                      !.run[t] = Return(t, [c.last EXCEPT !.op = c.op, !.agent = a,
                                               !.is_new = TRUE,
                                               !.changed = a \notin DOMAIN store])]
        /\ UNCHANGED <<invoices, ilock, pay, ret, settled>>
        /\ UNCHANGED proxyVars
        /\ UNCHANGED <<calls, replay, acct, mutex, tui>>

\* set_balance, lines 105-108
KSetBalance(t) ==
    LET c == task.run[t]
        a == c.agent
    IN  /\ c.op = "set_balance" /\ c.pc = "entry"
        /\ GuardFree(AgentGuard(a), t)
        /\ store' = SetBalance(store, a, c.amount)
        /\ wallet' = [wallet EXCEPT ![a] = [base |-> c.amount, debited |-> 0]]
        /\ task' = [task EXCEPT !.run[t] =
                      Return(t, [c.last EXCEPT !.op = c.op, !.agent = a])]
        /\ UNCHANGED <<invoices, ilock, pay, ret, settled>>
        /\ UNCHANGED proxyVars
        /\ UNCHANGED <<calls, replay, acct, mutex, tui>>

\* create_invoice, lines 82-90: the insert under a fresh key
KCreateInvoice(t) ==
    LET c == task.run[t]
    IN  /\ c.op = "create_invoice" /\ c.pc = "insert"
        /\ invoices' = CreateInvoice(invoices, c.agent, c.amount)
        /\ task' = [task EXCEPT !.run[t] =
                      Return(t, [c.last EXCEPT !.op = c.op, !.agent = c.agent])]
        /\ UNCHANGED <<store, ilock, pay, ret, settled, wallet>>
        /\ UNCHANGED proxyVars
        /\ UNCHANGED <<calls, replay, acct, mutex, tui>>

\* get_state, line 77: store.get(agent_id) and the clone
KGetState(t) ==
    LET c == task.run[t]
    IN  /\ c.op = "get_state" /\ c.pc = "get"
        /\ GuardFree(AgentGuard(c.agent), t)
        /\ task' = [task EXCEPT !.run[t] =
                      Return(t, [c.last EXCEPT !.op = c.op, !.agent = c.agent])]
        /\ UNCHANGED <<ledgerVars, proxyVars>>
        /\ UNCHANGED <<calls, replay, acct, mutex, tui>>

\* list_all_agents, line 113: store.iter() reads every entry
KListAllAgents(t) ==
    LET c == task.run[t]
    IN  /\ c.op = "list_all_agents" /\ c.pc = "iter"
        /\ \A a \in DOMAIN store : GuardFree(AgentGuard(a), t)
        /\ task' = [task EXCEPT !.run[t] = Return(t, [c.last EXCEPT !.op = c.op])]
        /\ UNCHANGED <<ledgerVars, proxyVars>>
        /\ UNCHANGED <<calls, replay, acct, mutex, tui>>

\* the guard that pay_invoice takes n-th, and whether its key is in the map
PayGuard(t, n) ==
    IF PayLockOrder(t)[n] = "invoice" THEN InvoiceGuard(task.run[t].id)
    ELSE AgentGuard(task.run[t].agent)

PayKeyFound(t, n) ==
    IF PayLockOrder(t)[n] = "invoice" THEN task.run[t].id \in DOMAIN invoices
    ELSE task.run[t].agent \in DOMAIN store

\* pay_invoice, lines 118-125: the first get_mut and the checks on what it guards;
\* an error returns, otherwise the task keeps the guard
KPayFirst(t) ==
    LET c == task.run[t]
        r == IF ~PayKeyFound(t, 1)
             THEN (IF PayLockOrder(t)[1] = "invoice" THEN "Invoice invalid"
                   ELSE "Agent not found")
             ELSE IF PayLockOrder(t)[1] = "invoice"
                  THEN ValidateInvoice(invoices, c.id, c.agent)
             ELSE "Ok"
    IN  /\ c.op = "pay_invoice" /\ c.pc = "lock1"
        /\ PayKeyFound(t, 1) => GuardFree(PayGuard(t, 1), t)
        /\ IF r = "Ok"
           THEN task' = [task EXCEPT !.run[t].pc = "lock2",
                                     !.run[t].held = {PayGuard(t, 1)}]
           ELSE task' = [task EXCEPT !.run[t] =
                           Return(t, [c.last EXCEPT !.op = c.op, !.agent = c.agent])]
        /\ UNCHANGED <<ledgerVars, proxyVars>>
        /\ UNCHANGED <<calls, replay, acct, mutex, tui>>

\* pay_invoice, lines 128-153: the second get_mut, the remaining checks, the debit
\* and invoice.is_paid = true; both guards are dropped on return
KPaySecond(t) ==
    LET c == task.run[t]
        r1 == ValidateInvoice(invoices, c.id, c.agent)
        r == IF r1 # "Ok" THEN r1 ELSE ValidateFunds(store, invoices[c.id], c.agent)
    IN  /\ c.op = "pay_invoice" /\ c.pc = "lock2"
        /\ PayKeyFound(t, 2) => GuardFree(PayGuard(t, 2), t)
        /\ task' = [task EXCEPT !.run[t] =
                      Return(t, [c.last EXCEPT !.op = c.op, !.agent = c.agent])]
        /\ IF r = "Ok"
           THEN /\ store' = Execute(store, invoices[c.id], c.agent)
                /\ invoices' = MarkPaid(invoices, c.id)
                /\ settled' = [settled EXCEPT ![c.id] = @ + 1]
                /\ wallet' = [wallet EXCEPT ![c.agent].debited = @ + invoices[c.id].amount]
           ELSE UNCHANGED <<store, invoices, settled, wallet>>
        /\ UNCHANGED <<ilock, pay, ret>>
        /\ UNCHANGED proxyVars
        /\ UNCHANGED <<calls, replay, acct, mutex, tui>>

\* the next step of the call of task t
KStep(t) ==
    \/ KRegisterGet(t)
    \/ KRegisterEntry(t)
    \/ KSetBalance(t)
    \/ KCreateInvoice(t)
    \/ KGetState(t)
    \/ KListAllAgents(t)
    \/ KPayFirst(t)
    \/ KPaySecond(t)

NextLocks ==
    \/ \E t \in Payers, a \in Agents : KCallRegister(t, a)
    \/ \E t \in Payers, a \in Agents, amount \in BalanceAmounts :
          KCallSetBalance(t, a, amount)
    \/ \E t \in Payers, a \in Agents : KCallCreateInvoice(t, a, InvoiceAmount)
    \/ \E t \in Payers, a \in Agents : KCallGetState(t, a)
    \/ \E t \in Payers : KCallListAllAgents(t)
    \/ \E t \in Payers, id \in 1..MaxInvoices, a \in Agents : KCallPayInvoice(t, id, a)
    \/ \E t \in Payers : KRegisterGet(t)
    \/ \E t \in Payers : KRegisterEntry(t)
    \/ \E t \in Payers : KSetBalance(t)
    \/ \E t \in Payers : KCreateInvoice(t)
    \/ \E t \in Payers : KGetState(t)
    \/ \E t \in Payers : KListAllAgents(t)
    \/ \E t \in Payers : KPayFirst(t)
    \/ \E t \in Payers : KPaySecond(t)

SpecLocks == InitLocks /\ [][NextLocks]_vars

\* every task that is inside a call is scheduled again: its next step is taken once
\* it stays possible (tokio runs every ready task, a released guard wakes a waiter)
SpecLocksFair == SpecLocks /\ \A t \in Payers : WF_vars(KStep(t))


(***************************************************************************)
(* C21: register_or_get is idempotent: a call made after the agent exists  *)
(* returns is_new = false and the agent's current state and changes        *)
(* nothing in the ledger, and only the first call for an id returns        *)
(* is_new = true: of all the calls for one id at most one has returned     *)
(* is_new = true.                                                          *)
(***************************************************************************)
C21_RegisterIdempotent ==
    /\ \A t \in Payers :
          LET r == task.run[t].last
          IN  (r.op = "register_or_get" /\ r.existed) =>
                 (~r.is_new /\ r.current /\ ~r.changed)
    /\ \A a \in Agents : task.created[a] <= 1

(***************************************************************************)
(* C28: pay_invoice takes the guard of the invoice before the guard of the *)
(* agent and no operation of the ledger takes them in the opposite order,  *)
(* so concurrent calls never deadlock: every call that was made returns.   *)
(***************************************************************************)
C28_EveryCallReturns ==
    \A t \in Payers : (task.run[t].pc # "idle") ~> (task.run[t].pc = "idle")

\* a task holds the guard of an invoice inside pay_invoice while the other task,
\* also inside pay_invoice, waits for the same guard
C28_Witness ==
    \E t \in Payers, u \in Payers :
        /\ t # u
        /\ task.run[t].pc = "lock2"
        /\ task.run[u].pc = "lock1"
        /\ task.run[u].id = task.run[t].id
        /\ InvoiceGuard(task.run[t].id) \in task.run[t].held
        /\ ~ENABLED KStep(u)

(***************************************************************************)
(* set_balance, the admin and TUI top-up.                                  *)
(***************************************************************************)
\* C30: set_balance(agent_id, amount) creates the agent with the default fields if it
\* is absent and then sets only balance_usdc: total_spend, payment_count, budget_limit
\* and is_active of that agent, every other agent and every invoice are unchanged, so
\* the amount the agent may still spend under its budget cap does not grow.
C30_SetBalanceFrame ==
    [][\A t \in Payers :
         KSetBalance(t) =>
           LET a == task.run[t].agent
               amount == task.run[t].amount
           IN  /\ DOMAIN store' = DOMAIN store \cup {a}
               /\ store'[a].balance_usdc = amount
               /\ store'[a].id = a
               /\ IF a \in DOMAIN store
                  THEN /\ store'[a].total_spend = store[a].total_spend
                       /\ store'[a].payment_count = store[a].payment_count
                       /\ store'[a].budget_limit = store[a].budget_limit
                       /\ store'[a].is_active = store[a].is_active
                       /\ store'[a].budget_limit - store'[a].total_spend
                            <= store[a].budget_limit - store[a].total_spend
                  ELSE /\ store'[a].total_spend = 0
                       /\ store'[a].payment_count = 0
                       /\ store'[a].budget_limit = DEFAULT_BUDGET
                       /\ store'[a].is_active
               /\ \A b \in DOMAIN store : b # a => store'[b] = store[b]
               /\ invoices' = invoices]_vars

\* a wallet topped up after the agent has paid an invoice: the spend is kept
C30_Witness ==
    \E a \in DOMAIN store, t \in Payers :
        /\ task.run[t].last.op = "set_balance"
        /\ task.run[t].last.agent = a
        /\ wallet[a] = [base |-> 700, debited |-> 0]
        /\ store[a].balance_usdc = 700
        /\ store[a].total_spend = InvoiceAmount
        /\ store[a].payment_count = 1


(***************************************************************************)
(* Conservation of the wallet with f64 amounts.                            *)
(***************************************************************************)
\* C31: in every reachable state of a ledger on which set_balance was never called,
\* each agent has balance_usdc + total_spend = 100.00, total_spend is the sum of the
\* amounts of its paid invoices and payment_count is their number.  Here for the
\* agent that pays invoices of 0.01 one after another, the sum taken as f64 + takes it.
C31_Conservation ==
    /\ acct.payment_count <= acct.attempts
    /\ acct.attempts <= 1000 => acct.payment_count = acct.attempts
    /\ F64Add(acct.balance_usdc, acct.total_spend) = Hundred64


(***************************************************************************)
(* Concurrent registrations of one agent.                                  *)
(***************************************************************************)
\* two tasks whose last calls were register_or_get for the same agent, both made
\* while the agent was not in the store: the calls overlapped
RegisteredTogether(t, u) ==
    /\ t # u
    /\ task.run[t].pc = "idle" /\ task.run[u].pc = "idle"
    /\ task.run[t].last.op = "register_or_get"
    /\ task.run[u].last.op = "register_or_get"
    /\ task.run[t].last.agent = task.run[u].last.agent
    /\ ~task.run[t].last.existed /\ ~task.run[u].last.existed

\* C32: when register_or_get calls for the same unknown agent run concurrently,
\* exactly one of them returns is_new = true and exactly one of them created the
\* agent.
C32_OneRegistration ==
    \A t \in Payers, u \in Payers :
        RegisteredTogether(t, u) =>
            /\ task.run[t].last.changed # task.run[u].last.changed
            /\ task.run[t].last.is_new # task.run[u].last.is_new


(***************************************************************************)
(* The fund specification: the TUI key 'f' beside the calls of the proxy.  *)
(* run_tui runs on the main thread of the multi-threaded runtime and the   *)
(* proxy in a spawned task (src/main.rs), so the two calls the key makes   *)
(* on the ledger interleave with the pay_invoice calls of requests.        *)
(***************************************************************************)
FundAgent == "a1"         \* let agent_id = "agent-007"
TopUp == 5000             \* state.balance_usdc + 50.0
TuiTask == "t1"           \* run_app is one loop: one key is handled at a time

\* the key 'f' is read: the task is before app.ledger.get_state(agent_id)
KCallFund(t) == Called(t, "fund", "get", 0, FundAgent, 0)

\* if let Some(state) = app.ledger.get_state(agent_id): the balance to set is
\* state.balance_usdc + 50.0, or 100.0 for an agent the ledger does not know
KFundGet(t) ==
    LET c == task.run[t]
        a == c.agent
    IN  /\ c.op = "fund" /\ c.pc = "get"
        /\ GuardFree(AgentGuard(a), t)
        /\ task' = [task EXCEPT
                      !.run[t].pc = "set",
                      !.run[t].amount = IF a \in DOMAIN store
                                        THEN store[a].balance_usdc + TopUp
                                        ELSE InitialBalance,
                      !.run[t].last = [c.last EXCEPT !.existed = a \in DOMAIN store]]
        /\ UNCHANGED <<ledgerVars, proxyVars>>
        /\ UNCHANGED <<calls, replay, acct, mutex, tui>>

\* app.ledger.set_balance(agent_id, ..) with the balance computed from the read
KFundSet(t) ==
    LET c == task.run[t]
        a == c.agent
    IN  /\ c.op = "fund" /\ c.pc = "set"
        /\ GuardFree(AgentGuard(a), t)
        /\ store' = SetBalance(store, a, c.amount)
        /\ wallet' = [wallet EXCEPT ![a] = [base |-> c.amount, debited |-> 0]]
        /\ task' = [task EXCEPT
                      !.funded = IF c.last.existed THEN @ + 1 ELSE @,
                      !.run[t] = Return(t, [c.last EXCEPT !.op = c.op, !.agent = a,
                                               !.changed = TRUE])]
        /\ UNCHANGED <<invoices, ilock, pay, ret, settled>>
        /\ UNCHANGED proxyVars
        /\ UNCHANGED <<calls, replay, acct, mutex, tui>>

\* the key 'f', and what requests call on the ledger: register_or_get,
\* create_invoice and pay_invoice
NextFund ==
    \/ KCallFund(TuiTask)
    \/ KFundGet(TuiTask)
    \/ KFundSet(TuiTask)
    \/ \E t \in Payers, a \in Agents : KCallRegister(t, a)
    \/ \E t \in Payers, a \in Agents : KCallCreateInvoice(t, a, InvoiceAmount)
    \/ \E t \in Payers, id \in 1..MaxInvoices, a \in Agents : KCallPayInvoice(t, id, a)
    \/ \E t \in Payers : KRegisterGet(t)
    \/ \E t \in Payers : KRegisterEntry(t)
    \/ \E t \in Payers : KCreateInvoice(t)
    \/ \E t \in Payers : KPayFirst(t)
    \/ \E t \in Payers : KPaySecond(t)

SpecFund == InitLocks /\ [][NextFund]_vars

\* C33: the key 'f' adds exactly 50 to the current balance of the agent (or creates
\* it with balance 100) and neither a debit nor a credit is lost when it interleaves
\* with pay_invoice: the balance of the agent is the initial 100.00, plus 50 for
\* each fund of the existing agent, minus what the agent has paid.
C33_FundKeepsDebits ==
    FundAgent \in DOMAIN store =>
        store[FundAgent].balance_usdc =
            InitialBalance + TopUp * task.funded - store[FundAgent].total_spend


(***************************************************************************)
(* The engine with get_config: the calls of the engine specification and   *)
(* get_config, whose caller (the TUI) keeps the clone it got.              *)
(***************************************************************************)
CGetConfig ==
    LET r == GetConfig(chaos)
    IN  /\ ChaosLock("get_config")
        /\ chaos' = r.chaos
        /\ tui' = [tui EXCEPT !.cfg = r.out]
        /\ mutex' = mutex
        /\ UNCHANGED <<ledgerVars, traces, h, nreq, committed, ended>>
        /\ UNCHANGED <<calls, replay, acct, task>>

NextFrame ==
    \/ \E cfg \in EngineConfigs : CSetConfig(cfg)
    \/ CRollNetworkFailure
    \/ CRollPaymentFailure
    \/ CRollRugPull
    \/ CInjectLatency
    \/ CGetConfig

SpecFrame == InitLedger /\ [][NextFrame]_vars

\* C34: while chaos is disabled, roll_network_failure, roll_payment_failure,
\* roll_rug_pull and inject_latency leave the PRNG state and the config unchanged,
\* so a disabled engine holds the PRNG as its last set_config seeded it, however
\* many calls were made since; get_config never changes the PRNG state or the config.
C34_DisabledFrame ==
    /\ [](~chaos.config.enabled => chaos.rng = RngSeed(chaos.config.seed))
    /\ [][/\ (/\ ~chaos.config.enabled
              /\ \/ CRollNetworkFailure
                 \/ CRollPaymentFailure
                 \/ CRollRugPull
                 \/ CInjectLatency) => chaos' = chaos
          /\ CGetConfig => chaos' = chaos]_vars

\* the four calls made on a disabled engine whose rates are all 1.0 and whose
\* latency range is 0..=1, and the config read back by get_config
C34_Witness ==
    /\ ~chaos.config.enabled
    /\ chaos.config.global_failure_rate = 100
    /\ chaos.config.max_latency_ms = 1
    /\ tui.cfg = chaos.config
    /\ chaos.rng = RngSeed(chaos.config.seed)
    /\ \A op \in {"network", "payment", "rug", "latency"} :
           \E i \in DOMAIN calls.made : calls.made[i].op = op

=============================================================================
